---------------------------- MODULE Spec2Model ----------------------------
(***************************************************************************)
(* A model of the InOutModule case-study core (src/CaseStudy.py and        *)
(* src/Utilities.py): the representative-period transition matrices, the   *)
(* scenario / timestep / period filters and the k-shift, unit scaling,     *)
(* single-node bus merging and the k-medoids aggregation; and of the Excel *)
(* reader and writer (src/ExcelReader.py, src/ExcelWriter.py).             *)
(*                                                                         *)
(* Each part is a group of variables with its own specification            *)
(* (SpecMatrix, SpecView, SpecChain, SpecKmed, SpecScale, SpecMerge,       *)
(* SpecExcel); a specification leaves the variables of the other parts at  *)
(* their idle values.                                                      *)
(*                                                                         *)
(* Conventions.  Labels such as "rp01", "k0001", "h0001" are modelled by   *)
(* their number; where the code parses and re-formats a label the          *)
(* conversion is modelled on the digit string.  Floating-point values are  *)
(* modelled as exact rationals <<num, den>>; NaN is <<0, 0>> and inf is    *)
(* <<1, 0>>.                                                               *)
(***************************************************************************)
EXTENDS Integers, Sequences, FiniteSets, TLC

(***************************************************************************)
(* Generic helpers                                                         *)
(***************************************************************************)
Range(f) == {f[x] : x \in DOMAIN f}

Max(S) == CHOOSE x \in S : \A y \in S : y <= x

Min(S) == CHOOSE x \in S : \A y \in S : x <= y

RECURSIVE SortedSeq(_)
\* sorted(...) of a set of numbers (labels sort like their numbers)
SortedSeq(S) == IF S = {} THEN <<>> ELSE <<Min(S)>> \o SortedSeq(S \ {Min(S)})

RECURSIVE SumOver(_, _)
SumOver(S, f) == IF S = {} THEN 0
                 ELSE LET x == CHOOSE y \in S : TRUE IN f[x] + SumOver(S \ {x}, f)

\* NaN (0/0) and inf (x/0) of the floating-point result
NaN == <<0, 0>>

Inf == <<1, 0>>

\* numpy / pandas true division of two non-negative integers
Div(x, s) == IF s = 0 THEN (IF x = 0 THEN NaN ELSE Inf) ELSE <<x, s>>

\* a + b on rationals, NaN propagating
RatAdd(a, b) == IF a = NaN \/ b = NaN THEN NaN
                ELSE IF a = Inf \/ b = Inf THEN Inf
                ELSE <<a[1] * b[2] + b[1] * a[2], a[2] * b[2]>>

RatEq(a, b) == IF a[2] = 0 \/ b[2] = 0 THEN FALSE
               ELSE a[1] * b[2] = b[1] * a[2]

RECURSIVE RatSum(_, _)
RatSum(S, f) == IF S = {} THEN <<0, 1>>
                ELSE LET x == CHOOSE y \in S : TRUE IN RatAdd(f[x], RatSum(S \ {x}, f))

(***************************************************************************)
(* The state.  The module holds five programs side by side: the transition *)
(* matrices (Part 1), the CaseStudy instances and their views (Part 2),    *)
(* the unit scaling (Part 3), the bus merging (Part 4) and the Excel       *)
(* reader and writer (Part 5).  Every specification runs one of them and   *)
(* leaves the variables of the others idle.                                *)
(***************************************************************************)
VARIABLES dPower_Hindex, clip_method, clip_value, rpTransitionMatrixAbsolute,
          rpTransitionMatrixRelativeTo, rpTransitionMatrixRelativeFrom,
          mxWarnings, mxStatus

VARIABLES objects, heap, calls, transitionMatrices

VARIABLES scs, scCalls

VARIABLES mcs, mgCalls

VARIABLES xlSource, xlData, xlTarget, xlStatus

mxVars == <<dPower_Hindex, clip_method, clip_value, rpTransitionMatrixAbsolute,
            rpTransitionMatrixRelativeTo, rpTransitionMatrixRelativeFrom,
            mxWarnings, mxStatus>>

vwVars == <<objects, heap, calls, transitionMatrices>>

scVars == <<scs, scCalls>>

mgVars == <<mcs, mgCalls>>

xlVars == <<xlSource, xlData, xlTarget, xlStatus>>

vars == <<mxVars, vwVars, scVars, mgVars, xlVars>>

NoMatrix == <<>>

IdleMatrix ==
    /\ dPower_Hindex = <<>>
    /\ clip_method = "none"
    /\ clip_value = <<0, 1>>
    /\ rpTransitionMatrixAbsolute = NoMatrix
    /\ rpTransitionMatrixRelativeTo = NoMatrix
    /\ rpTransitionMatrixRelativeFrom = NoMatrix
    /\ mxWarnings = {}
    /\ mxStatus = "idle"

IdleView ==
    /\ objects = <<>>
    /\ heap = <<>>
    /\ calls = <<>>
    /\ transitionMatrices = <<>>

IdleScale ==
    /\ scs = <<>>
    /\ scCalls = <<>>

IdleMerge ==
    /\ mcs = <<>>
    /\ mgCalls = <<>>

IdleExcel ==
    /\ xlSource = <<>>
    /\ xlData = <<>>
    /\ xlTarget = <<>>
    /\ xlStatus = "idle"

(***************************************************************************)
(* Part 1: get_rpTransitionMatrices (src/CaseStudy.py 596-634)             *)
(***************************************************************************)
\* bounds of the time-index tables drawn in InitMatrix
MaxRP == 3

MaxBlocks == 4

MaxL == 2

MaxClip == 2

RPLabels == 1..MaxRP

\* the time index built from a block sequence s with L steps per block; when
\* alt # 0 and L > 1 the last hour of every block carries the label alt instead
HindexOf(s, L, alt) ==
    [h \in 1..(Len(s) * L) |->
        LET b == ((h - 1) \div L) + 1
            k == ((h - 1) % L) + 1
        IN [p |-> h, k |-> k,
            rp |-> IF alt # 0 /\ L > 1 /\ k = L THEN alt ELSE s[b]]]

ClipChoices ==
    {[method |-> "none", value |-> <<0, 1>>]}
    \cup {[method |-> "absolute_count", value |-> <<n, 1>>] : n \in (-1)..MaxClip}
    \cup {[method |-> "absolute_count", value |-> <<1, 2>>]}
    \cup {[method |-> "relative_to_highest", value |-> v] :
             v \in {<<0, 1>>, <<1, 2>>, <<1, 1>>, <<3, 2>>, <<-1, 2>>}}
    \cup {[method |-> "other", value |-> <<0, 1>>]}

\* rps = sorted(distinct rp labels), ks = sorted(distinct k labels)   (597-598)
rpsOf(hindex) == SortedSeq({hindex[h].rp : h \in DOMAIN hindex})

ksOf(hindex) == SortedSeq({hindex[h].k : h \in DOMAIN hindex})

\* hindex_rps = rp level [::len(ks)]                                  (602)
hindex_rps(hindex) ==
    LET n == Len(ksOf(hindex))
        m == (Len(hindex) + n - 1) \div n
    IN [t \in 1..m |-> hindex[(t - 1) * n + 1].rp]

\* a variant of previous_rp that does not wrap around
previous_rp_linear(seq, t) == IF t = 1 THEN seq[1] ELSE seq[t - 1]

\* previous_rp of position t: the last rp first, to make it circular  (605-608)
previous_rp(seq, t) == IF t = 1 THEN seq[Len(seq)] ELSE seq[t - 1]

CountTransitions(hindex) ==
    LET seq == hindex_rps(hindex)
        R == Range(rpsOf(hindex))
    IN [a \in R |-> [b \in R |->
          Cardinality({t \in 1..Len(seq) : previous_rp(seq, t) = a /\ seq[t] = b})]]

\* Series.nlargest(n).min(): the n-th largest entry counted with multiplicity,
\* the smallest entry when the row has fewer than n, NaN for n = 0    (618)
NthLargestMin(row, n) ==
    IF n = 0 THEN NaN
    ELSE LET R == DOMAIN row
             atLeast(v) == Cardinality({b \in R : row[b] >= v})
             cands == {row[b] : b \in R}
             reach == {v \in cands : atLeast(v) >= n}
         IN IF reach = {} THEN <<Min(cands), 1>> ELSE <<Max(reach), 1>>

\* a comparison that also clips the entries equal to the threshold
LessOrEqual(x, threshold) == IF threshold = NaN THEN FALSE ELSE x <= threshold[1]

\* entry < threshold, every comparison with NaN being False
LessThan(x, threshold) == IF threshold = NaN THEN FALSE ELSE x < threshold[1]

ClipAbsoluteCount(abs, n) ==
    [a \in DOMAIN abs |->
        LET threshold == NthLargestMin(abs[a], n)
        IN [b \in DOMAIN abs[a] |->
              IF LessThan(abs[a][b], threshold) THEN 0 ELSE abs[a][b]]]

\* rows for which the tie warning is printed                          (619-620)
TieWarnings(abs, n) ==
    {a \in DOMAIN abs :
        LET threshold == NthLargestMin(abs[a], n)
        IN threshold # NaN
           /\ Cardinality({b \in DOMAIN abs[a] : abs[a][b] = threshold[1]}) > 1}

\* threshold = row max * clip_value; entries below it become 0       (626-627)
ClipRelative(abs, v) ==
    [a \in DOMAIN abs |->
        LET mx == Max({abs[a][b] : b \in DOMAIN abs[a]})
        IN [b \in DOMAIN abs[a] |->
              IF abs[a][b] * v[2] < mx * v[1] THEN 0 ELSE abs[a][b]]]

RowSum(m, a) == SumOver(DOMAIN m[a], m[a])

ColSum(m, b) == SumOver(DOMAIN m, [a \in DOMAIN m |-> m[a][b]])

\* absolute.div(absolute.sum(axis=1), axis=0)                         (632)
RelativeTo(abs) ==
    [a \in DOMAIN abs |-> [b \in DOMAIN abs[a] |-> Div(abs[a][b], RowSum(abs, a))]]

\* a variant of RelativeFrom that divides by the row sums
RelativeFromByRows(abs) ==
    [a \in DOMAIN abs |-> [b \in DOMAIN abs[a] |-> Div(abs[a][b], RowSum(abs, a))]]

\* absolute.div(absolute.sum(axis=0), axis=1)                         (633)
RelativeFrom(abs) ==
    [a \in DOMAIN abs |-> [b \in DOMAIN abs[a] |-> Div(abs[a][b], ColSum(abs, b))]]

IsInteger(v) == v[1] % v[2] = 0

ClipValueError(method, v) ==
    CASE method = "none" -> FALSE
      [] method = "absolute_count" -> ~IsInteger(v) \/ v[1] < 0
      [] method = "relative_to_highest" -> v[1] < 0 \/ v[1] > v[2]
      [] OTHER -> TRUE

InitMatrix ==
    /\ \E nb \in 1..MaxBlocks, L \in 1..MaxL, alt \in {0, MaxRP} :
         \E s \in [1..nb -> RPLabels] :
            dPower_Hindex = HindexOf(s, L, alt)
    /\ \E c \in ClipChoices : clip_method = c.method /\ clip_value = c.value
    /\ rpTransitionMatrixAbsolute = NoMatrix
    /\ rpTransitionMatrixRelativeTo = NoMatrix
    /\ rpTransitionMatrixRelativeFrom = NoMatrix
    /\ mxWarnings = {}
    /\ mxStatus = "new"
    /\ IdleView /\ IdleScale /\ IdleMerge /\ IdleExcel

\* the call raises ValueError before any matrix is returned            (615-616, 623-624, 628-629)
GetMatricesRaises ==
    /\ mxStatus = "new"
    /\ ClipValueError(clip_method, clip_value)
    /\ mxStatus' = "error"
    /\ UNCHANGED <<dPower_Hindex, clip_method, clip_value, rpTransitionMatrixAbsolute,
                   rpTransitionMatrixRelativeTo, rpTransitionMatrixRelativeFrom, mxWarnings>>
    /\ UNCHANGED <<vwVars, scVars, mgVars, xlVars>>

\* the matrices one successful call returns                           (631-634)
SetMatrices(abs, warned) ==
    /\ rpTransitionMatrixAbsolute' = abs
    /\ rpTransitionMatrixRelativeTo' = RelativeTo(abs)
    /\ rpTransitionMatrixRelativeFrom' = RelativeFrom(abs)
    /\ mxWarnings' = warned
    /\ mxStatus' = "done"
    /\ UNCHANGED <<dPower_Hindex, clip_method, clip_value>>
    /\ UNCHANGED <<vwVars, scVars, mgVars, xlVars>>

GetMatricesNone ==
    /\ mxStatus = "new"
    /\ clip_method = "none"
    /\ SetMatrices(CountTransitions(dPower_Hindex), {})

GetMatricesAbsoluteCount ==
    /\ mxStatus = "new"
    /\ clip_method = "absolute_count"
    /\ ~ClipValueError(clip_method, clip_value)
    /\ LET abs == CountTransitions(dPower_Hindex)
           n == clip_value[1] \div clip_value[2]
       IN SetMatrices(ClipAbsoluteCount(abs, n), TieWarnings(abs, n))

\* writeThrough: whether the chained assignment of line 627 reaches the
\* matrix (it depends on the pandas build and its copy-on-write mode)
GetMatricesRelative ==
    /\ mxStatus = "new"
    /\ clip_method = "relative_to_highest"
    /\ ~ClipValueError(clip_method, clip_value)
    /\ \E writeThrough \in BOOLEAN :
         LET abs == CountTransitions(dPower_Hindex)
         IN SetMatrices(IF writeThrough THEN ClipRelative(abs, clip_value) ELSE abs, {})

NextMatrix ==
    \/ GetMatricesRaises
    \/ GetMatricesNone
    \/ GetMatricesAbsoluteCount
    \/ GetMatricesRelative

(***************************************************************************)
(* Part 2: CaseStudy instances and their views: copy, filter_scenario,     *)
(* filter_timesteps, filter_representative_periods, shift_ks,              *)
(* to_full_hourly_model (src/CaseStudy.py 222-223, 636-815)                *)
(*                                                                         *)
(* objects[c] maps the attributes of instance c to the DataFrame object    *)
(* each is bound to (None for an attribute set to None; an attribute the   *)
(* instance does not have is not in the domain); heap[r] is the content of *)
(* DataFrame object r, a set of rows.  A row is                            *)
(*   [scenario, rp, k, key, value, ord]                                    *)
(* with scenario 1 = "ScenarioA", 2 = "ScenarioB", ...; rp the number of   *)
(* the label "rpNN" (0: no such column); k the digits of the label "kNNNN" *)
(* (<<>>: no such column); key the bus i, unit g, hub or hour p; value the *)
(* cell of the value column (a one-element sequence, or the elements of    *)
(* the Series a non-unique lookup returns); ord the row position in the    *)
(* time index.  Of the tables of the class lists, the instances carry      *)
(* dPower_Demand, dPower_Hindex, dPower_ImpExpProfiles,                    *)
(* dPower_VRESProfiles, dPower_WeightsRP, dPower_WeightsK, dPower_BusInfo  *)
(* and dPower_ImpExpHubs.                                                  *)
(***************************************************************************)
rpk_dependent_dataframes ==
    <<"dPower_Demand", "dPower_Hindex", "dPower_ImpExpProfiles", "dPower_Inflows",
      "dPower_VRESProfiles">>

rp_only_dependent_dataframes == <<"dPower_WeightsRP">>

k_only_dependent_dataframes == <<"dPower_WeightsK">>

non_time_dependent_dataframes ==
    <<"dPower_BusInfo", "dPower_ImpExpHubs", "dPower_Network", "dPower_Storage",
      "dPower_ThermalGen", "dPower_VRES">>

rp_dependent_dataframes == rpk_dependent_dataframes \o rp_only_dependent_dataframes

k_dependent_dataframes == rpk_dependent_dataframes \o k_only_dependent_dataframes

scenario_dependent_dataframes ==
    rpk_dependent_dataframes \o rp_only_dependent_dataframes
        \o k_only_dependent_dataframes \o non_time_dependent_dataframes

non_dependent_dataframes ==
    <<"dGlobal_Parameters", "dGlobal_Scenarios", "dPower_Parameters">>

None == 0

\* width of the zero padding of a k label: str.zfill(4), f"{..:0>4}", f"{..:04d}"
KWidth == 4

RECURSIVE Digits(_)
\* str(n) of a non-negative integer, as its decimal digits
Digits(n) == IF n < 10 THEN <<n>> ELSE Digits(n \div 10) \o <<n % 10>>

RECURSIVE ZFill(_, _)
\* str.zfill(w)
ZFill(d, w) == IF Len(d) >= w THEN d ELSE ZFill(<<0>> \o d, w)

RECURSIVE ParseInt(_)
\* astype(int) of a digit string
ParseInt(d) == IF d = <<>> THEN 0
               ELSE ParseInt(SubSeq(d, 1, Len(d) - 1)) * 10 + d[Len(d)]

\* "k" + str(n).zfill(4)
FormatK(n) == ZFill(Digits(n), KWidth)

RECURSIVE StrLE(_, _)
\* a <= b on strings (lexicographic, a proper prefix being smaller)
StrLE(a, b) == IF a = <<>> THEN TRUE
               ELSE IF b = <<>> THEN FALSE
               ELSE IF a[1] # b[1] THEN a[1] < b[1]
               ELSE StrLE(Tail(a), Tail(b))

Row(sc, rp, k, key, value, ord) ==
    [scenario |-> sc, rp |-> rp, k |-> k, key |-> key, value |-> value, ord |-> ord]

\* the content of every attribute of an instance
Contents(obj, h) ==
    [a \in DOMAIN obj |->
        IF obj[a] = None THEN [isNone |-> TRUE, rows |-> {}]
        ELSE [isNone |-> FALSE, rows |-> h[obj[a]]]]

\* the DataFrame objects an instance is bound to
Refs(obj) == {obj[a] : a \in DOMAIN obj} \ {None}

RECURSIVE CopyFrom(_, _, _, _)
CopyFrom(names, src, acc, h) ==
    IF names = <<>> THEN [obj |-> acc, heap |-> h]
    ELSE LET a == Head(names)
         IN IF a \notin DOMAIN src THEN CopyFrom(Tail(names), src, acc, h)
            ELSE IF src[a] = None
                 THEN CopyFrom(Tail(names), src, (a :> None) @@ acc, h)
                 ELSE CopyFrom(Tail(names), src, (a :> (Len(h) + 1)) @@ acc,
                               Append(h, h[src[a]]))

\* a copy that is bound to the DataFrame objects of the original
ShallowCopy(src, h) == [obj |-> src, heap |-> h]

\* copy.deepcopy(self): a new instance bound to new DataFrame objects   (222-223)
copy(src, h) ==
    CopyFrom(scenario_dependent_dataframes \o non_dependent_dataframes, src, <<>>, h)

\* setattr(obj, a, <a new DataFrame with these rows>)
Bind(st, a, rows) ==
    [obj |-> [st.obj EXCEPT ![a] = Len(st.heap) + 1],
     heap |-> Append(st.heap, rows),
     err |-> st.err]

Raise(st) == [st EXCEPT !.err = TRUE]

RECURSIVE FilterScenarioLoopStrict(_, _, _)
\* a loop that raises for every table left without a row, an empty one included
FilterScenarioLoopStrict(names, st, scenario_name) ==
    IF names = <<>> \/ st.err THEN st
    ELSE LET a == Head(names)
         IN IF a \notin DOMAIN st.obj
            THEN FilterScenarioLoopStrict(Tail(names), st, scenario_name)
            ELSE IF st.obj[a] = None THEN Raise(st)
            ELSE LET filtered_df == {r \in st.heap[st.obj[a]] : r.scenario = scenario_name}
                 IN IF filtered_df = {} THEN Raise(st)
                    ELSE FilterScenarioLoopStrict(Tail(names), Bind(st, a, filtered_df),
                                                  scenario_name)

RECURSIVE FilterScenarioLoop(_, _, _)
\* the loop of filter_scenario: it reads and rebinds the attributes of self (715-724)
FilterScenarioLoop(names, st, scenario_name) ==
    IF names = <<>> \/ st.err THEN st
    ELSE LET a == Head(names)
         IN IF a \notin DOMAIN st.obj
            THEN FilterScenarioLoop(Tail(names), st, scenario_name)
            ELSE IF st.obj[a] = None THEN Raise(st)
            ELSE LET df == st.heap[st.obj[a]]
                     filtered_df == {r \in df : r.scenario = scenario_name}
                 IN IF df # {} /\ filtered_df = {} THEN Raise(st)
                    ELSE FilterScenarioLoop(Tail(names), Bind(st, a, filtered_df),
                                            scenario_name)

RECURSIVE FilterTimestepsLoop(_, _, _, _)
\* the loop of filter_timesteps                                        (738-749)
FilterTimestepsLoop(names, st, start, end) ==
    IF names = <<>> \/ st.err THEN st
    ELSE LET a == Head(names)
         IN IF a \notin DOMAIN st.obj \/ st.obj[a] = None
            THEN FilterTimestepsLoop(Tail(names), st, start, end)
            ELSE LET df == st.heap[st.obj[a]]
                     filtered_df == {r \in df : StrLE(start, r.k) /\ StrLE(r.k, end)}
                 IN FilterTimestepsLoop(Tail(names), Bind(st, a, filtered_df), start, end)

RECURSIVE FilterRPLoop(_, _, _)
\* the loop of filter_representative_periods                           (762-773)
FilterRPLoop(names, st, rp) ==
    IF names = <<>> \/ st.err THEN st
    ELSE LET a == Head(names)
         IN IF a \notin DOMAIN st.obj THEN FilterRPLoop(Tail(names), st, rp)
            ELSE IF st.obj[a] = None THEN Raise(st)
            ELSE LET df == st.heap[st.obj[a]]
                     filtered_df == {r \in df : r.rp = rp}
                 IN FilterRPLoop(Tail(names), Bind(st, a, filtered_df), rp)

\* k_int_new of line 804 (Python's % takes the sign of the divisor)
k_int_new(k_int, k_int_min, k_int_max, shift) ==
    ((k_int - k_int_min + shift) % (k_int_max - k_int_min + 1)) + k_int_min

ShiftTable(df, shift) ==
    LET ks == {ParseInt(r.k) : r \in df}
    IN {[r EXCEPT !.k = FormatK(k_int_new(ParseInt(r.k), Min(ks), Max(ks), shift))] :
           r \in df}

RECURSIVE ShiftLoop(_, _, _)
\* the loop of shift_ks                                                (788-813)
ShiftLoop(names, st, shift) ==
    IF names = <<>> \/ st.err THEN st
    ELSE LET a == Head(names)
         IN IF a \in {"dPower_WeightsK", "dPower_Hindex"} \/ a \notin DOMAIN st.obj
            THEN ShiftLoop(Tail(names), st, shift)
            ELSE IF st.obj[a] = None THEN ShiftLoop(Tail(names), st, shift)
            ELSE IF st.heap[st.obj[a]] = {} THEN ShiftLoop(Tail(names), st, shift)
            ELSE ShiftLoop(Tail(names), Bind(st, a, ShiftTable(st.heap[st.obj[a]], shift)),
                           shift)

ScenarioA == 1

RECURSIVE ConcatValues(_)
\* the value cells of the rows a lookup matches, in row order (scenario by scenario)
ConcatValues(S) ==
    IF S = {} THEN <<>>
    ELSE LET m == CHOOSE r \in S : \A q \in S : r.scenario <= q.scenario
         IN m.value \o ConcatValues(S \ {m})

\* df.loc[(rp, k, key)]
Lookup(df, rp, k, key) == {r \in df : r.rp = rp /\ r.k = k /\ r.key = key}

\* the time index with p renumbered by row position                    (649-652)
RenumberedHindex(hx) ==
    {[r EXCEPT !.key = Cardinality({q \in hx : q.ord < r.ord}) + 1] : r \in hx}

\* the rows built for every id and every row of the time index  (655-682)
HourlyRows(df, ids, hx) ==
    {Row(ScenarioA, 1, FormatK(h.key), i, ConcatValues(Lookup(df, h.rp, h.k, i)), 0) :
        i \in ids, h \in hx}

HourlyMissing(df, ids, hx) == \E i \in ids, h \in hx : Lookup(df, h.rp, h.k, i) = {}

\* to_full_hourly_model applied to case_study                          (649-699)
ToFullHourly(st0) ==
    LET hx == RenumberedHindex(st0.heap[st0.obj["dPower_Hindex"]])
        st1 == Bind(st0, "dPower_Hindex", hx)
        buses == {r.key : r \in st0.heap[st0.obj["dPower_BusInfo"]]}
        demand == st0.heap[st0.obj["dPower_Demand"]]
        st2 == IF HourlyMissing(demand, buses, hx) THEN Raise(st1)
               ELSE Bind(st1, "dPower_Demand", HourlyRows(demand, buses, hx))
        hasVRES == "dPower_VRESProfiles" \in DOMAIN st0.obj
        vres == st0.heap[st0.obj["dPower_VRESProfiles"]]
        gs == {r.key : r \in vres}
        st3 == IF st2.err \/ ~hasVRES THEN st2
               ELSE IF HourlyMissing(vres, gs, hx) THEN Raise(st2)
               ELSE Bind(st2, "dPower_VRESProfiles", HourlyRows(vres, gs, hx))
        hindex == {Row(ScenarioA, 1, FormatK(h.key), h.key, <<>>, h.key) : h \in hx}
        weightsK == {Row(ScenarioA, 0, h.k, 0, <<1>>, 0) : h \in hindex}
        weightsRP == {Row(ScenarioA, 1, <<>>, 0, <<1>>, 0)}
    IN IF st3.err THEN st3
       ELSE Bind(Bind(Bind(st3, "dPower_Hindex", hindex), "dPower_WeightsK", weightsK),
                 "dPower_WeightsRP", weightsRP)

\* self.dPower_Demand["value"] *= factor, on the DataFrame object itself (268-269)
ScaledValues(df, factor) ==
    {[r EXCEPT !.value = [j \in DOMAIN r.value |-> r.value[j] * factor]] : r \in df}

\* bounds of the case studies drawn in InitView: the scenarios, the k labels,
\* the representative periods and the buses; MaxChain bounds a chain of calls
MaxScen == 2

MaxK == 3

NumRP == 2

NumBus == 2

MaxChain == 2

ViewFactor == 2

ValueOf(sc, rp, k, key) == <<((sc * 10 + rp) * 10 + k) * 10 + key>>

RankIn(K, k) == Cardinality({j \in K : j <= k})

\* the tables of a case study with scenarios S, representative periods 1..nRP and
\* k labels K; one generator (g = 1, at bus 1, its row of dPower_VRES holding the bus)
InitialTables(S, nRP, K, SV, impExp) ==
    [dPower_Demand |->
        {Row(sc, rp, FormatK(k), i, ValueOf(sc, rp, k, i), 0) :
            sc \in S, rp \in 1..nRP, k \in K, i \in 1..NumBus},
     dPower_Hindex |->
        UNION {{Row(sc, rp, FormatK(k), (rp - 1) * Cardinality(K) + RankIn(K, k), <<>>,
                    ((sc - 1) * nRP + rp - 1) * Cardinality(K) + RankIn(K, k)) :
                  rp \in 1..nRP, k \in K} : sc \in S},
     dPower_ImpExpProfiles |->
        IF impExp # "rows" THEN {}
        ELSE {Row(sc, rp, FormatK(k), 1, ValueOf(sc, rp, k, 7), 0) :
                 sc \in S, rp \in 1..nRP, k \in K},
     dPower_VRESProfiles |->
        {Row(sc, rp, FormatK(k), 1, ValueOf(sc, rp, k, 9), 0) :
            sc \in SV, rp \in 1..nRP, k \in K},
     dPower_WeightsRP |-> {Row(sc, rp, <<>>, 0, <<1>>, 0) : sc \in S, rp \in 1..nRP},
     dPower_WeightsK |-> {Row(sc, 0, FormatK(k), 0, <<1>>, 0) : sc \in S, k \in K},
     dPower_BusInfo |-> {Row(sc, 0, <<>>, i, <<0>>, 0) : sc \in S, i \in 1..NumBus},
     dPower_ImpExpHubs |->
        IF impExp # "rows" THEN {} ELSE {Row(sc, 0, <<>>, 1, <<5>>, 0) : sc \in S},
     dPower_VRES |-> {Row(sc, 0, <<>>, 1, <<1>>, 0) : sc \in S},
     dGlobal_Scenarios |-> {Row(sc, 0, <<>>, 0, <<1>>, 0) : sc \in S}]

ViewAttrs ==
    <<"dPower_Demand", "dPower_Hindex", "dPower_ImpExpProfiles", "dPower_VRESProfiles",
      "dPower_WeightsRP", "dPower_WeightsK", "dPower_BusInfo", "dPower_ImpExpHubs",
      "dPower_VRES", "dGlobal_Scenarios">>

\* the instance after __init__: the import/export tables are None when
\* pEnablePowerImportExport is off, dPower_VRES and dPower_VRESProfiles are set only
\* when pEnableVRES is on                                              (175-209)
InitialObject(impExp, vres) ==
    [a \in {ViewAttrs[n] : n \in 1..Len(ViewAttrs)}
            \ (IF vres = "absent" THEN {"dPower_VRESProfiles", "dPower_VRES"} ELSE {}) |->
        IF impExp = "None" /\ a \in {"dPower_ImpExpProfiles", "dPower_ImpExpHubs"}
        THEN None
        ELSE CHOOSE n \in 1..Len(ViewAttrs) : ViewAttrs[n] = a]

\* the time-index table in row order, as get_rpTransitionMatrices reads it
HindexInRowOrder(rows) ==
    LET ords == SortedSeq({r.ord : r \in rows})
    IN [n \in 1..Len(ords) |->
          LET r == CHOOSE q \in rows : q.ord = ords[n]
          IN [p |-> r.key, k |-> ParseInt(r.k), rp |-> r.rp]]

\* the three matrices __init__ stores, clip_method being "none"       (159)
ConstructedMatrices(rows) ==
    LET abs == CountTransitions(HindexInRowOrder(rows))
    IN [Absolute |-> abs, RelativeTo |-> RelativeTo(abs), RelativeFrom |-> RelativeFrom(abs)]

\* no operation assigns the matrices again: an instance keeps its own, a new
\* instance is a deepcopy of the receiver and holds the receiver's
KeepMatrices(c) ==
    transitionMatrices' = IF Len(objects') > Len(objects)
                          THEN Append(transitionMatrices, transitionMatrices[c])
                          ELSE transitionMatrices

\* a case study as read from its files, alone or next to a copy() of it
CaseStudies(withCopies, nRP, Ks) ==
    /\ \E nScen \in 1..MaxScen, K \in Ks,
          impExp \in {"None", "empty", "rows"}, vres \in {"absent", "all", "first"},
          withCopy \in withCopies :
         LET t == InitialTables(1..nScen, nRP, K,
                                IF vres = "first" THEN {1} ELSE 1..nScen, impExp)
             h == [n \in 1..Len(ViewAttrs) |-> t[ViewAttrs[n]]]
             o == InitialObject(impExp, vres)
             m == ConstructedMatrices(t["dPower_Hindex"])
         IN IF withCopy
            THEN /\ objects = <<o, copy(o, h).obj>> /\ heap = copy(o, h).heap
                 /\ transitionMatrices = <<m, m>>
            ELSE /\ objects = <<o>> /\ heap = h
                 /\ transitionMatrices = <<m>>
    /\ calls = <<>>
    /\ IdleMatrix /\ IdleScale /\ IdleMerge /\ IdleExcel

InitView == CaseStudies(BOOLEAN, NumRP, (SUBSET (1..MaxK)) \ {{}})

InitChain == CaseStudies({FALSE}, NumRP, (SUBSET (1..MaxK)) \ {{}})

AllContents == [c \in DOMAIN objects |-> Contents(objects[c], heap)]

CallRecord(op, c, inplace, arg, raised, result) ==
    [op |-> op, recv |-> c, inplace |-> inplace, arg |-> arg, raised |-> raised,
     result |-> result, pre |-> AllContents]

\* filter_scenario: caseStudy is self or a copy of self, the loop works on self  (706-726)
filter_scenario(c, scenario_name, inplace) ==
    LET caseStudy == copy(objects[c], heap)
        st == FilterScenarioLoop(scenario_dependent_dataframes,
                                 [obj |-> objects[c],
                                  heap |-> IF inplace THEN heap ELSE caseStudy.heap,
                                  err |-> FALSE],
                                 scenario_name)
        returnsNone == inplace \/ st.err
    IN /\ objects' = IF returnsNone THEN [objects EXCEPT ![c] = st.obj]
                     ELSE Append([objects EXCEPT ![c] = st.obj], caseStudy.obj)
       /\ heap' = st.heap
       /\ calls' = Append(calls, CallRecord("filter_scenario", c, inplace,
                                            <<scenario_name>>, st.err,
                                            IF returnsNone THEN None
                                            ELSE Len(objects) + 1))
       /\ KeepMatrices(c)
       /\ UNCHANGED <<mxVars, scVars, mgVars, xlVars>>

\* case_study = self if inplace else self.copy()          (736, 760, 786, 646)
case_study(c, inplace) ==
    IF inplace THEN [obj |-> objects[c], heap |-> heap, err |-> FALSE]
    ELSE LET cp == copy(objects[c], heap)
         IN [obj |-> cp.obj, heap |-> cp.heap, err |-> FALSE]

\* the end of an operation that worked on case_study: return None if inplace
\* else case_study; an exception leaves what was rebound so far
Finish(op, c, inplace, arg, st) ==
    /\ objects' = IF inplace THEN [objects EXCEPT ![c] = st.obj]
                  ELSE IF st.err THEN objects
                  ELSE Append(objects, st.obj)
    /\ heap' = st.heap
    /\ calls' = Append(calls, CallRecord(op, c, inplace, arg, st.err,
                                         IF inplace \/ st.err THEN None
                                         ELSE Len(objects) + 1))
    /\ KeepMatrices(c)
    /\ UNCHANGED <<mxVars, scVars, mgVars, xlVars>>

filter_timesteps(c, start, end, inplace) ==
    Finish("filter_timesteps", c, inplace, <<start, end>>,
              FilterTimestepsLoop(k_dependent_dataframes, case_study(c, inplace), start, end))

filter_representative_periods(c, rp, inplace) ==
    Finish("filter_representative_periods", c, inplace, <<rp>>,
              FilterRPLoop(rp_dependent_dataframes, case_study(c, inplace), rp))

shift_ks(c, shift, inplace) ==
    Finish("shift_ks", c, inplace, <<shift>>,
              ShiftLoop(k_dependent_dataframes, case_study(c, inplace), shift))

to_full_hourly_model(c, inplace) ==
    Finish("to_full_hourly_model", c, inplace, <<>>,
              ToFullHourly(case_study(c, inplace)))

\* scale_dPower_Demand: the value column of the bound DataFrame is multiplied in place
scale_dPower_Demand_inplace(c) ==
    /\ heap' = [heap EXCEPT ![objects[c]["dPower_Demand"]] = ScaledValues(@, ViewFactor)]
    /\ calls' = Append(calls, CallRecord("scale_dPower_Demand", c, TRUE, <<>>, FALSE, None))
    /\ UNCHANGED <<objects, transitionMatrices>>
    /\ UNCHANGED <<mxVars, scVars, mgVars, xlVars>>

\* ---- apply_kmedoids_aggregation (src/Utilities.py 92-521) ----
\* bounds: the number k of clusters asked for, and the hours of the case
\* studies drawn in InitKmed
MaxClusters == 2

MaxHours == 2

OfScenario(df, scenario) == {r \in df : r.scenario = scenario}

IsSet(obj, a) == a \in DOMAIN obj /\ obj[a] # None

\* the rows of scenario_df: the demand rows, one for every generator with a
\* profile at the bus and hour (right join), one for a bus without     (198-315)
ExtractScenarioData(obj, h, scenario) ==
    LET demand_df == OfScenario(h[obj["dPower_Demand"]], scenario)
        hasVRES == IsSet(obj, "dPower_VRES") /\ IsSet(obj, "dPower_VRESProfiles")
        vres_df == IF hasVRES THEN OfScenario(h[obj["dPower_VRES"]], scenario) ELSE {}
        vres_profiles_df ==
            IF hasVRES THEN OfScenario(h[obj["dPower_VRESProfiles"]], scenario) ELSE {}
        vres_with_profiles ==
            IF vres_df = {} \/ vres_profiles_df = {} THEN {}
            ELSE UNION {{[rp |-> q.rp, k |-> q.k, g |-> q.key, i |-> v.value[1]] :
                            v \in {w \in vres_df : w.key = q.key}} :
                        q \in vres_profiles_df}
        OnBus(d) == {t \in vres_with_profiles : t.rp = d.rp /\ t.k = d.k /\ t.i = d.key}
    IN UNION {IF OnBus(d) = {} THEN {[rp |-> d.rp, k |-> d.k, i |-> d.key, g |-> 0]}
              ELSE {[rp |-> d.rp, k |-> d.k, i |-> d.key, g |-> t.g] : t \in OnBus(d)} :
              d \in demand_df}

\* len(pivot_df): one row per row of scenario_df, or one per (rp, k)   (318-340)
PreparedRows(scenario_df, cluster_strategy) ==
    IF cluster_strategy = "disaggregated" THEN Cardinality(scenario_df)
    ELSE Cardinality({<<r.rp, r.k>> : r \in scenario_df})

\* what tsam can return for a series of nRows hourly rows: the rows are cut into
\* periods of rp_length rows, every period is put in one of k clusters, none of
\* them empty, and the centre of a cluster is one of its periods.  A series
\* that is not a whole number of periods is left out.                  (356-384)
Aggregations(nRows, k, rp_length) ==
    LET periods == nRows \div rp_length
        orders == {o \in [1..periods -> 0..(k - 1)] :
                      \A cl \in 0..(k - 1) : \E n \in 1..periods : o[n] = cl}
    IN IF nRows % rp_length # 0 THEN {}
       ELSE UNION {{[clusterOrder |-> o, clusterCenterIndices |-> m] :
                       m \in {x \in [1..k -> 0..(periods - 1)] :
                                 \A cl \in 1..k : o[x[cl] + 1] = cl - 1}} :
                   o \in orders}

\* one of them: the first k - 1 periods alone, the rest in the last cluster
FirstAggregation(nRows, k, rp_length) ==
    {a \in {[clusterOrder |-> [n \in 1..(nRows \div rp_length) |-> Min({n, k}) - 1],
             clusterCenterIndices |-> [cl \in 1..k |-> cl - 1]]} :
        nRows % rp_length = 0 /\ k <= nRows \div rp_length}

\* aggregation._clusterPeriodNoOccur
ClusterPeriodNoOccur(aggregation) ==
    [cl \in 0..(Len(aggregation.clusterCenterIndices) - 1) |->
        Cardinality({n \in DOMAIN aggregation.clusterOrder :
                        aggregation.clusterOrder[n] = cl})]

\* the rows of the centre periods of one table, relabelled             (404-421)
RepresentativeRows(df, aggregation, rp_length) ==
    UNION {UNION {{[r EXCEPT !.rp = cluster_idx, !.k = FormatK(k_offset)] :
                      r \in {q \in df :
                                (q.rp - 1) * rp_length + ParseInt(q.k)
                                    = aggregation.clusterCenterIndices[cluster_idx]
                                          * rp_length + k_offset}} :
                  k_offset \in 1..rp_length} :
           cluster_idx \in DOMAIN aggregation.clusterCenterIndices}

\* _build_representative_periods and _build_scenario_weights_and_indices of
\* one scenario                                                        (387-467)
ProcessScenario(obj, h, scenario, aggregation, rp_length) ==
    [Power_Demand |->
        RepresentativeRows(OfScenario(h[obj["dPower_Demand"]], scenario),
                           aggregation, rp_length),
     Power_VRESProfiles |->
        IF IsSet(obj, "dPower_VRESProfiles")
        THEN RepresentativeRows(OfScenario(h[obj["dPower_VRESProfiles"]], scenario),
                                aggregation, rp_length)
        ELSE {},
     weights_rp |->
        {Row(scenario, rp_idx + 1, <<>>, 0,
             <<ClusterPeriodNoOccur(aggregation)[rp_idx]>>, 0) :
            rp_idx \in DOMAIN ClusterPeriodNoOccur(aggregation)},
     weights_k |-> {Row(scenario, 0, FormatK(k), 0, <<1>>, 0) : k \in 1..rp_length},
     hindex |->
        [n \in 1..(Len(aggregation.clusterOrder) * rp_length) |->
            Row(scenario, aggregation.clusterOrder[((n - 1) \div rp_length) + 1] + 1,
                FormatK(((n - 1) % rp_length) + 1), n, <<>>, 0)]]

RECURSIVE AllProcessedData(_, _, _, _, _, _, _)
\* the loop over the scenarios: every all_processed_data the clustering can
\* lead to, or the ValueError of a scenario without demand            (124-164)
AllProcessedData(obj, h, scenario_names, k, rp_length, cluster_strategy, anyResult) ==
    IF scenario_names = <<>> THEN {[raised |-> FALSE, data |-> <<>>]}
    ELSE LET scenario == Head(scenario_names)
             scenario_df == ExtractScenarioData(obj, h, scenario)
             nRows == PreparedRows(scenario_df, cluster_strategy)
             results == IF anyResult THEN Aggregations(nRows, k, rp_length)
                        ELSE FirstAggregation(nRows, k, rp_length)
         IN IF scenario_df = {} THEN {[raised |-> TRUE, data |-> <<>>]}
            ELSE UNION {{IF rest.raised THEN rest
                         ELSE [raised |-> FALSE,
                               data |-> <<ProcessScenario(obj, h, scenario, a, rp_length)>>
                                            \o rest.data] :
                            rest \in AllProcessedData(obj, h, Tail(scenario_names), k,
                                                      rp_length, cluster_strategy,
                                                      anyResult)} :
                        a \in results}

\* set_index of the concatenated hindex rows: ord is the row position
HindexRows(all_hindex_data) ==
    {[all_hindex_data[n] EXCEPT !.ord = n] : n \in DOMAIN all_hindex_data}

RECURSIVE ConcatHindex(_)
ConcatHindex(data) ==
    IF data = <<>> THEN <<>> ELSE Head(data).hindex \o ConcatHindex(Tail(data))

BindIfAny(st, a, rows) == IF rows = {} THEN st ELSE Bind(st, a, rows)

\* _update_casestudy_with_scenarios                                    (470-521)
UpdateCaseStudy(st, data) ==
    LET All(field) == UNION {data[n][field] : n \in DOMAIN data}
        st1 == BindIfAny(st, "dPower_Demand", All("Power_Demand"))
        st2 == BindIfAny(st1, "dPower_VRESProfiles", All("Power_VRESProfiles"))
        st3 == BindIfAny(st2, "dPower_WeightsRP", All("weights_rp"))
        st4 == BindIfAny(st3, "dPower_WeightsK", All("weights_k"))
    IN BindIfAny(st4, "dPower_Hindex", HindexRows(ConcatHindex(data)))

\* aggregated_case_study.dGlobal_Scenarios.index.values               (120)
ScenarioNames(obj, h) == SortedSeq({r.scenario : r \in h[obj["dGlobal_Scenarios"]]})

\* apply_kmedoids_aggregation(case_study, k, rp_length, cluster_strategy): the
\* tables are read from case_study, the copy is updated and returned  (92-170)
apply_kmedoids_aggregation(c, k, rp_length, cluster_strategy, anyResult) ==
    LET aggregated_case_study == case_study(c, FALSE)
        outcomes == AllProcessedData(objects[c], heap,
                                     ScenarioNames(aggregated_case_study.obj,
                                                   aggregated_case_study.heap),
                                     k, rp_length, cluster_strategy, anyResult)
    IN \E all_processed_data \in outcomes :
          Finish("apply_kmedoids_aggregation", c, FALSE,
                 <<k, rp_length, cluster_strategy>>,
                 IF all_processed_data.raised THEN Raise(aggregated_case_study)
                 ELSE UpdateCaseStudy(aggregated_case_study, all_processed_data.data))

\* one call on a case study
NextView ==
    \/ \E c \in DOMAIN objects, name \in 1..(MaxScen + 1), inplace \in BOOLEAN :
          calls = <<>> /\ filter_scenario(c, name, inplace)
    \/ \E c \in DOMAIN objects, a \in 1..MaxK, b \in 1..MaxK, inplace \in BOOLEAN :
          calls = <<>> /\ a <= b /\ filter_timesteps(c, FormatK(a), FormatK(b), inplace)
    \/ \E c \in DOMAIN objects, rp \in 1..NumRP, inplace \in BOOLEAN :
          calls = <<>> /\ filter_representative_periods(c, rp, inplace)
    \/ \E c \in DOMAIN objects, shift \in (-MaxK)..MaxK, inplace \in BOOLEAN :
          calls = <<>> /\ shift_ks(c, shift, inplace)
    \/ \E c \in DOMAIN objects, inplace \in BOOLEAN :
          calls = <<>> /\ to_full_hourly_model(c, inplace)
    \/ \E c \in DOMAIN objects :
          calls = <<>> /\ scale_dPower_Demand_inplace(c)
    \/ \E c \in DOMAIN objects, rp_length \in 1..MaxK,
          cluster_strategy \in {"aggregated", "disaggregated"} :
          calls = <<>>
             /\ apply_kmedoids_aggregation(c, 1, rp_length, cluster_strategy, FALSE)

\* chains of filter_scenario and shift_ks calls
NextChain ==
    \/ \E c \in DOMAIN objects, name \in 1..(MaxScen + 1), inplace \in BOOLEAN :
          Len(calls) < MaxChain /\ filter_scenario(c, name, inplace)
    \/ \E c \in DOMAIN objects, shift \in (-MaxK)..MaxK, inplace \in BOOLEAN :
          Len(calls) < MaxChain /\ shift_ks(c, shift, inplace)

\* case studies of one representative period whose k labels are its hours
InitKmed == CaseStudies({FALSE}, 1, {1..hours : hours \in 1..MaxHours})

\* one aggregation of a case study, with every result of the clustering
NextKmed ==
    \E c \in DOMAIN objects, k \in 1..MaxClusters, rp_length \in 1..MaxHours,
       cluster_strategy \in {"aggregated", "disaggregated"} :
          calls = <<>>
             /\ apply_kmedoids_aggregation(c, k, rp_length, cluster_strategy, TRUE)

(***************************************************************************)
(* Part 3: unit scaling: scale_CaseStudy, remove_scaling and the scale_*   *)
(* steps (src/CaseStudy.py 211-342)                                        *)
(*                                                                         *)
(* A number is <<n, d, e>>, the value (n / d) * pi^e in lowest terms;      *)
(* <<0, 0, 0>> is NaN.  scs is the CaseStudy: its factors, the entries of  *)
(* dPower_Parameters and one record per table row.                         *)
(***************************************************************************)
RECURSIVE GCD(_, _)
GCD(a, b) == IF b = 0 THEN a ELSE GCD(b, a % b)

NotANumber == <<0, 0, 0>>

IsNaN(x) == x[2] = 0

\* n / d in lowest terms
Q(n, d) == IF n = 0 THEN <<0, 1, 0>> ELSE <<n \div GCD(n, d), d \div GCD(n, d), 0>>

Times(x, y) ==
    IF IsNaN(x) \/ IsNaN(y) THEN NotANumber
    ELSE IF x[1] = 0 \/ y[1] = 0 THEN <<0, 1, 0>>
    ELSE LET q == Q(x[1] * y[1], x[2] * y[2]) IN <<q[1], q[2], x[3] + y[3]>>

\* 1 / x, x # 0
Inverse(x) == <<x[2], x[1], -x[3]>>

Over(x, y) == Times(x, Inverse(y))

\* x + y for rationals
Plus(x, y) ==
    IF IsNaN(x) \/ IsNaN(y) THEN NotANumber
    ELSE Q(x[1] * y[2] + y[1] * x[2], x[2] * y[2])

\* 1 - x for a rational x in 0..1
OneMinus(x) == IF IsNaN(x) THEN NotANumber ELSE Q(x[2] - x[1], x[2])

\* Series.fillna(0)
fillna0(x) == IF IsNaN(x) THEN <<0, 1, 0>> ELSE x

IsWhole(x) == ~IsNaN(x) /\ x[2] = 1 /\ x[3] = 0

\* the dtype pandas gives a numeric column read from a sheet
DtypeOf(values) == IF \A v \in values : IsWhole(v) THEN "int64" ELSE "float64"

\* bound of the scaling factors drawn in InitScale, and of the calls in a row
MaxFactor == 2

MaxScaleCalls == 2

Factors == {Q(n, 1) : n \in 1..MaxFactor} \cup {Q(1, n) : n \in 1..MaxFactor}

\* np.pi / 180                                                        (217)
AngleToRad == <<1, 180, 1>>

\* 1e-3, MVar to kVar                                                 (216)
ReactivePowerFactor == Q(1, 1000)

ThermalUnits == {"g1", "g2"}

ThermalRow(exis, efor, q, minUpTime) ==
    [ExisUnits |-> exis, EnableInvest |-> 0, EFOR |-> efor,
     RampUp |-> Q(3, 1), RampDw |-> Q(3, 1), MaxProd |-> Q(8, 1), MinProd |-> Q(2, 1),
     InvestCost |-> Q(5, 1), InvestCostEUR |-> NotANumber,
     MinUpTime |-> minUpTime, MinDownTime |-> Q(1, 1),
     Qmin |-> q, Qmax |-> q]

InitialCaseStudy(p, c, efor, exis2, q, minUpTime, thermal, storage) ==
    [power_scaling_factor |-> p,
     cost_scaling_factor |-> c,
     reactive_power_scaling_factor |-> ReactivePowerFactor,
     angle_to_rad_scaling_factor |-> AngleToRad,
     dPower_Parameters |->
        [pSBase |-> Q(100, 1), pENSCost |-> Q(7, 1), pLOLCost |-> Q(9, 1),
         pMaxAngleDCOPF |-> Q(90, 1),
         pEnableThermalGen |-> thermal, pEnableStorage |-> storage # "off"],
     dPower_Network |-> [pPmax |-> Q(6, 1)],
     dPower_Demand |-> [value |-> Q(4, 1)],
     dPower_Inflows |-> [value |-> Q(2, 1)],
     dPower_ThermalGen |->
        ("g1" :> ThermalRow(1, efor, q, minUpTime)
         @@ "g2" :> ThermalRow(exis2, NotANumber, q, Q(2, 1))),
     MinUpTimeDtype |-> DtypeOf({minUpTime, Q(2, 1)}),
     MinDownTimeDtype |-> DtypeOf({Q(1, 1)}),
     dPower_VRES |->
        [MaxProd |-> Q(5, 1), OMVarCost |-> Q(3, 1), InvestCost |-> Q(2, 1),
         InvestCostEUR |-> NotANumber, Qmin |-> q, Qmax |-> q],
     dPower_Storage |->
        [MaxProd |-> Q(4, 1), MaxCons |-> Q(3, 1), OMVarCost |-> Q(1, 1),
         pOMVarCostEUR |-> NotANumber, Qmin |-> q, Qmax |-> q,
         DisEffic |-> IF storage = "NaN" THEN NotANumber ELSE Q(9, 10),
         ChEffic |-> Q(9, 10)],
     dPower_ImpExpHubs |-> [PmaxImport |-> Q(2, 1), PmaxExport |-> Q(3, 1)],
     dPower_ImpExpProfiles |-> [ImpExp |-> Q(1, 1)],
     err |-> FALSE]

InitScale ==
    /\ \E p \in Factors, c \in Factors, efor \in {NotANumber, Q(0, 1), Q(1, 2)},
          exis2 \in {0, 1}, q \in {NotANumber, Q(0, 1), Q(3, 1)},
          minUpTime \in {Q(2, 1), NotANumber, Q(3, 2)},
          thermal \in BOOLEAN, storage \in {"off", "on", "NaN"} :
         scs = InitialCaseStudy(p, c, efor, exis2, q, minUpTime, thermal, storage)
    /\ scCalls = <<>>
    /\ IdleMatrix /\ IdleView /\ IdleMerge /\ IdleExcel

\* cost_scaling_factor / power_scaling_factor
CostPerPower(cs) == Over(cs.cost_scaling_factor, cs.power_scaling_factor)

scale_dPower_Parameters(cs) ==
    [cs EXCEPT
        !.dPower_Parameters.pSBase = Times(@, cs.power_scaling_factor),
        !.dPower_Parameters.pENSCost = Times(@, CostPerPower(cs)),
        !.dPower_Parameters.pLOLCost = Times(@, CostPerPower(cs)),
        !.dPower_Parameters.pMaxAngleDCOPF = Times(@, cs.angle_to_rad_scaling_factor)]

scale_dPower_Network(cs) ==
    [cs EXCEPT !.dPower_Network.pPmax = Times(@, cs.power_scaling_factor)]

scale_dPower_Demand(cs) ==
    [cs EXCEPT !.dPower_Demand.value = Times(@, cs.power_scaling_factor)]

\* one row of scale_dPower_ThermalGen up to the dtype checks         (274-293)
ScaleThermalRow(r, cs) ==
    LET efor == fillna0(r.EFOR)
        derate == Times(cs.power_scaling_factor, OneMinus(efor))
        maxProd == Times(r.MaxProd, derate)
    IN [r EXCEPT !.EFOR = efor,
                 !.RampUp = Times(@, cs.power_scaling_factor),
                 !.RampDw = Times(@, cs.power_scaling_factor),
                 !.MaxProd = maxProd,
                 !.MinProd = Times(@, derate),
                 !.InvestCostEUR = Times(Times(r.InvestCost, CostPerPower(cs)), maxProd),
                 !.MinUpTime = fillna0(@),
                 !.MinDownTime = fillna0(@)]

\* the reactive limits of a row                   (302-303, 317-318, 330-331)
ScaleReactive(r, cs) ==
    [r EXCEPT !.Qmin = Times(fillna0(@), cs.reactive_power_scaling_factor),
              !.Qmax = Times(fillna0(@), cs.reactive_power_scaling_factor)]

scale_dPower_ThermalGen(cs) ==
    LET kept == {g \in DOMAIN cs.dPower_ThermalGen :
                    cs.dPower_ThermalGen[g].ExisUnits > 0
                    \/ cs.dPower_ThermalGen[g].EnableInvest > 0}
        rows == [g \in kept |-> ScaleThermalRow(cs.dPower_ThermalGen[g], cs)]
    IN IF cs.MinUpTimeDtype # "int64" \/ cs.MinDownTimeDtype # "int64"
       THEN [cs EXCEPT !.dPower_ThermalGen = rows, !.err = TRUE]
       ELSE [cs EXCEPT !.dPower_ThermalGen = [g \in kept |-> ScaleReactive(rows[g], cs)]]

scale_dPower_Inflows(cs) ==
    [cs EXCEPT !.dPower_Inflows.value = Times(@, cs.power_scaling_factor)]

scale_dPower_VRES(cs) ==
    LET r == cs.dPower_VRES
    IN [cs EXCEPT !.dPower_VRES =
          ScaleReactive(
            [r EXCEPT !.InvestCostEUR =
                         Times(Times(Times(r.InvestCost, CostPerPower(cs)), r.MaxProd),
                               cs.power_scaling_factor),
                      !.MaxProd = Times(@, cs.power_scaling_factor),
                      !.OMVarCost = Times(@, CostPerPower(cs))], cs)]

scale_dPower_Storage(cs) ==
    LET r == cs.dPower_Storage
        scaled == ScaleReactive(
                    [r EXCEPT !.pOMVarCostEUR = Times(r.OMVarCost, CostPerPower(cs)),
                              !.MaxProd = Times(@, cs.power_scaling_factor),
                              !.MaxCons = Times(@, cs.power_scaling_factor)], cs)
    IN [cs EXCEPT !.dPower_Storage = scaled,
                  !.err = IsNaN(r.DisEffic) \/ IsNaN(r.ChEffic)]

scale_dPower_ImpExpHubs(cs) ==
    [cs EXCEPT !.dPower_ImpExpHubs.PmaxImport = Times(@, cs.power_scaling_factor),
               !.dPower_ImpExpHubs.PmaxExport = Times(@, cs.power_scaling_factor)]

scale_dPower_ImpExpProfiles(cs) ==
    [cs EXCEPT !.dPower_ImpExpProfiles.ImpExp = Times(@, cs.power_scaling_factor)]

\* a step of scale_CaseStudy, skipped once an exception is under way
Then(cs, enabled, step(_)) == IF cs.err \/ ~enabled THEN cs ELSE step(cs)

\* scale_CaseStudy as a function of the CaseStudy                    (225-244)
ScaleAll(cs) ==
    LET s1 == scale_dPower_Demand(scale_dPower_Network(scale_dPower_Parameters(cs)))
        s2 == Then(s1, cs.dPower_Parameters.pEnableThermalGen, scale_dPower_ThermalGen)
        s3 == Then(s2, TRUE, scale_dPower_Inflows)
        s4 == Then(s3, TRUE, scale_dPower_VRES)
        s5 == Then(s4, cs.dPower_Parameters.pEnableStorage, scale_dPower_Storage)
        s6 == Then(s5, TRUE, scale_dPower_ImpExpHubs)
    IN Then(s6, TRUE, scale_dPower_ImpExpProfiles)

InvertFactors(cs) ==
    [cs EXCEPT !.power_scaling_factor = Inverse(@),
               !.cost_scaling_factor = Inverse(@),
               !.angle_to_rad_scaling_factor = Inverse(@)]

ScaleCall(op, after) ==
    /\ scs' = [after EXCEPT !.err = FALSE]
    /\ scCalls' = Append(scCalls, [op |-> op, raised |-> after.err, pre |-> scs])
    /\ UNCHANGED <<mxVars, vwVars, mgVars, xlVars>>

scale_CaseStudy ==
    /\ Len(scCalls) < MaxScaleCalls
    /\ ScaleCall("scale_CaseStudy", ScaleAll(scs))

\* remove_scaling: the factors are inverted back only when scale_CaseStudy returns
remove_scaling ==
    /\ Len(scCalls) < MaxScaleCalls
    /\ LET scaled == ScaleAll(InvertFactors(scs))
       IN ScaleCall("remove_scaling",
                    IF scaled.err THEN scaled ELSE InvertFactors(scaled))

NextScale == scale_CaseStudy \/ remove_scaling

(***************************************************************************)
(* Part 4: get_connected_buses and merge_single_node_buses                 *)
(* (src/CaseStudy.py 453-593)                                              *)
(*                                                                         *)
(* A bus name is a sequence: <<n>> for the n-th bus read ("A", "B", ...),  *)
(* <<MergedTag>> \o members for "merged-" + "-".join(members); names sort  *)
(* like their sequences.  A table is a sequence of rows in row order.      *)
(* mcs.schema tells which columns the tables carry:                        *)
(*   "reader": the tables as ExcelReader returns them: the network indexed *)
(*             by (i, j, c) with the column pTecRepr, dPower_VRESProfiles  *)
(*             indexed by (rp, k, g);                                      *)
(*   "legacy": tables handed to the constructor that carry every column    *)
(*             merge_single_node_buses reads: the network indexed by       *)
(*             (i, j) with pTecRepr, 'Technical Representation', 'X',      *)
(*             'Pmax', 'LineID', dPower_VRESProfiles with 'i' and 'tec'.   *)
(***************************************************************************)
\* the prefix "merged-" of a merged bus name                            (490)
MergedTag == 9

RECURSIVE Join(_)
\* "-".join(names)
Join(names) == IF names = <<>> THEN <<>> ELSE Head(names) \o Join(Tail(names))

RECURSIVE KeyLE(_, _)
\* the order of two index keys (tuples of labels)
KeyLE(a, b) == IF a = <<>> THEN TRUE
               ELSE IF a[1] # b[1] THEN StrLE(a[1], b[1])
               ELSE KeyLE(Tail(a), Tail(b))

RECURSIVE SortKeys(_)
SortKeys(S) == IF S = {} THEN <<>>
               ELSE LET m == CHOOSE x \in S : \A y \in S : KeyLE(x, y)
                    IN <<m>> \o SortKeys(S \ {m})

RECURSIVE PushNew(_, _, _)
\* for node in nodes: if node not in connected_buses and node not in stack: push
PushNew(nodes, stack, connected_buses) ==
    IF nodes = <<>> THEN stack
    ELSE PushNew(Tail(nodes),
                 IF Head(nodes) \in Range(connected_buses) \cup Range(stack) THEN stack
                 ELSE Append(stack, Head(nodes)),
                 connected_buses)

RECURSIVE Traverse(_, _, _, _)
\* the while loop of get_connected_buses                           (457-464)
Traverse(connection_matrix, columns, stack, connected_buses) ==
    IF stack = <<>> THEN connected_buses
    ELSE LET current_bus == stack[Len(stack)]
             visited == Append(connected_buses, current_bus)
             connected_to_current_bus ==
                 SelectSeq(columns, LAMBDA b : <<current_bus, b>> \in connection_matrix)
         IN Traverse(connection_matrix, columns,
                     PushNew(connected_to_current_bus, SubSeq(stack, 1, Len(stack) - 1),
                             visited),
                     visited)

\* get_connected_buses: the buses reached from bus, sorted           (453-467)
get_connected_buses(connection_matrix, columns, bus) ==
    LET found == Traverse(connection_matrix, columns, <<bus>>, <<>>)
        keys == SortKeys({<<b>> : b \in Range(found)})
    IN [n \in 1..Len(keys) |-> keys[n][1]]

\* the cells set to True for the rows tagged SN                      (474-477)
ConnectionMatrix(network) ==
    UNION {{<<network[n].i, network[n].j>>, <<network[n].j, network[n].i>>} :
              n \in {m \in DOMAIN network : network[m].pTecRepr = "SN"}}

MapSeq(s, F(_)) == [n \in DOMAIN s |-> F(s[n])]

\* bus-info: the member rows are dropped, the merged row is appended; it is
\* built from the aggregated columns and zoi alone, every other column of it
\* (scenario among them) is left NaN by the concat, written 0       (492-516)
MergeBusInfo(busInfo, members, new_bus_name) ==
    LET zoneOfInterest ==
            IF \E n \in DOMAIN busInfo : busInfo[n].i \in members /\ busInfo[n].zoi = 1
            THEN 1 ELSE 0
    IN Append(SelectSeq(busInfo, LAMBDA r : r.i \notin members),
              [i |-> new_bus_name, zoi |-> zoneOfInterest, scenario |-> 0])

\* rows inside the component dropped, the others re-keyed with the merged bus
\* always in 'j'                                                     (518-537)
RekeyNetwork(rows, members, new_bus_name) ==
    LET kept == SelectSeq(rows, LAMBDA r : ~(r.i \in members /\ r.j \in members))
        renamed(r) == IF r.i \in members THEN [r EXCEPT !.i = new_bus_name]
                      ELSE IF r.j \in members THEN [r EXCEPT !.j = new_bus_name]
                      ELSE r
        flipped(r) == IF r.i = new_bus_name THEN [r EXCEPT !.i = r.j, !.j = new_bus_name]
                      ELSE r
    IN MapSeq(MapSeq(kept, renamed), flipped)

RECURSIVE SumX(_)
\* sum of 1 / X over the rows
SumX(rows) == IF rows = <<>> THEN Q(0, 1)
              ELSE Plus(Inverse(Head(rows).X), SumX(Tail(rows)))

\* the row groupby(['i', 'j']).agg(...) makes of one group: only the
\* aggregated columns are left                                       (540-557)
AggregateLines(group) ==
    [i |-> group[1].i, j |-> group[1].j, c |-> 0, pTecRepr |-> "", scenario |-> 0,
     TechnicalRepresentation |->
        IF \E n \in DOMAIN group : group[n].TechnicalRepresentation = "DC-OPF"
        THEN "DC-OPF" ELSE group[1].TechnicalRepresentation,
     X |-> Inverse(SumX(group)),
     Pmax |-> Min({group[n].Pmax : n \in DOMAIN group}) * Len(group),
     LineID |-> group[1].LineID]

GroupNetwork(rows) ==
    LET keys == SortKeys({<<rows[n].i, rows[n].j>> : n \in DOMAIN rows})
    IN [n \in 1..Len(keys) |->
          AggregateLines(SelectSeq(rows, LAMBDA r : <<r.i, r.j>> = keys[n]))]

\* row['i'] = new_bus_name for the rows of the merged buses   (560-575, 579-582)
RekeyBus(rows, members, new_bus_name) ==
    LET renamed(r) == IF r.i \in members THEN [r EXCEPT !.i = new_bus_name] ELSE r
    IN MapSeq(rows, renamed)

RECURSIVE SumValues(_)
SumValues(rows) == IF rows = <<>> THEN 0 ELSE Head(rows).value + SumValues(Tail(rows))

RECURSIVE SumScenario(_)
\* the sum of a column of strings: their concatenation
SumScenario(rows) == IF rows = <<>> THEN <<>>
                     ELSE Head(rows).scenario \o SumScenario(Tail(rows))

\* groupby(['rp', 'i', 'k']).sum() of the demand                        (583)
GroupDemand(rows) ==
    LET keys == SortKeys({<<<<rows[n].rp>>, rows[n].i, <<rows[n].k>>>> : n \in DOMAIN rows})
    IN [n \in 1..Len(keys) |->
          LET group == SelectSeq(rows, LAMBDA r : <<<<r.rp>>, r.i, <<r.k>>>> = keys[n])
          IN [rp |-> group[1].rp, i |-> group[1].i, k |-> group[1].k,
              value |-> SumValues(group), scenario |-> SumScenario(group)]]

RECURSIVE SumProfile(_)
\* the sum of the (rational) values of the rows
SumProfile(rows) == IF rows = <<>> THEN Q(0, 1)
                    ELSE Plus(Head(rows).value, SumProfile(Tail(rows)))

\* groupby(['rp', 'i', 'k', 'tec']).mean() of the VRES profiles         (592)
GroupProfiles(rows) ==
    LET keys == SortKeys({<<<<rows[n].rp>>, rows[n].i, <<rows[n].k>>, <<rows[n].tec>>>> :
                             n \in DOMAIN rows})
    IN [n \in 1..Len(keys) |->
          LET group == SelectSeq(rows, LAMBDA r :
                           <<<<r.rp>>, r.i, <<r.k>>, <<r.tec>>>> = keys[n])
          IN [rp |-> group[1].rp, i |-> group[1].i, k |-> group[1].k,
              tec |-> group[1].tec,
              value |-> Over(SumProfile(group), Q(Len(group), 1))]]

\* the body of the loop over the connection matrix for one component (485-593)
MergeComponent(cs, connected_buses) ==
    LET members == Range(connected_buses)
        new_bus_name == <<MergedTag>> \o Join(connected_buses)
    IN [cs EXCEPT
          !.dPower_BusInfo = MergeBusInfo(@, members, new_bus_name),
          !.dPower_Network = GroupNetwork(RekeyNetwork(@, members, new_bus_name)),
          !.networkColumns = @ \ {"c", "pTecRepr", "scenario"},
          !.dPower_ThermalGen = RekeyBus(@, members, new_bus_name),
          !.dPower_VRES = RekeyBus(@, members, new_bus_name),
          !.dPower_Storage = RekeyBus(@, members, new_bus_name),
          !.dPower_Demand = GroupDemand(RekeyBus(@, members, new_bus_name)),
          !.dPower_VRESProfiles = GroupProfiles(RekeyBus(@, members, new_bus_name))]

RECURSIVE MergeLoop(_, _, _, _, _)
\* for index, entry in connectionMatrix.iterrows()                  (481-593)
MergeLoop(cs, connectionMatrix, columns, todo, merged_buses) ==
    IF todo = <<>> THEN cs
    ELSE LET index == Head(todo)
         IN IF index \in merged_buses
               \/ ~\E b \in Range(columns) : <<index, b>> \in connectionMatrix
            THEN MergeLoop(cs, connectionMatrix, columns, Tail(todo), merged_buses)
            ELSE LET connected_buses ==
                         get_connected_buses(connectionMatrix, columns, index)
                 IN MergeLoop(MergeComponent(cs, connected_buses), connectionMatrix,
                              columns, Tail(todo),
                              merged_buses \cup Range(connected_buses))

\* merge_single_node_buses as a function of the CaseStudy: err is set when the
\* call raises: KeyError for a row without the column pTecRepr (475), and for
\* the key (i, j, c) of a row tagged SN, which .loc takes for a list of three
\* bus labels (476)
MergeAll(cs) ==
    LET network == cs.dPower_Network
        buses == [n \in DOMAIN cs.dPower_BusInfo |-> cs.dPower_BusInfo[n].i]
    IN IF network = <<>> THEN cs
       ELSE IF "pTecRepr" \notin cs.networkColumns THEN [cs EXCEPT !.err = TRUE]
       ELSE IF ConnectionMatrix(network) = {} THEN cs
       ELSE IF "c" \in cs.networkIndex THEN [cs EXCEPT !.err = TRUE]
       ELSE MergeLoop(cs, ConnectionMatrix(network), buses, buses, {})

\* bounds: the rows of the network table and the calls in a row
MaxLines == 3

MaxMergeCalls == 2

\* the buses "A", "B", "C", "D" in bus-info order
MergeBuses == <<<<1>>, <<2>>, <<3>>, <<4>>>>

MergeScenarios == {1, 2}

TecReprs == <<"SN", "DC-OPF", "TP">>

LineChoices ==
    {<<a, b, t>> : a \in DOMAIN MergeBuses, b \in DOMAIN MergeBuses, t \in DOMAIN TecReprs}
        \ {<<a, a, t>> : a \in DOMAIN MergeBuses, t \in DOMAIN TecReprs}

\* the position of a line in the sheet order of the drawn tables
LineRank(l) == (l[1] * 10 + l[2]) * 10 + l[3]

\* the network rows for the drawn lines; parallel rows get the circuits c1, c2, ...
NetworkOf(lines, schema) ==
    [n \in DOMAIN lines |->
        [i |-> MergeBuses[lines[n][1]], j |-> MergeBuses[lines[n][2]],
         c |-> IF schema = "reader"
               THEN Cardinality({m \in 1..n : lines[m][1] = lines[n][1]
                                              /\ lines[m][2] = lines[n][2]})
               ELSE 0,
         pTecRepr |-> TecReprs[lines[n][3]],
         TechnicalRepresentation |->
             IF schema = "reader" THEN "" ELSE TecReprs[lines[n][3]],
         X |-> Q(n + 1, 10), Pmax |-> 10 * (n + 1), LineID |-> n, scenario |-> 1]]

\* the tables of the instance when __init__ reaches the merge (211-212): one
\* generator of each kind at every bus; hub = 0 for pEnablePowerImportExport off
\* (dPower_ImpExpHubs is None, here without rows), else the bus of the one
\* import/export hub
InitialMergeCaseStudy(lines, schema, hub) ==
    [dGlobal_Scenarios |-> MergeScenarios,
     dPower_BusInfo |->
        [n \in DOMAIN MergeBuses |->
            [i |-> MergeBuses[n], zoi |-> IF n = 2 THEN 1 ELSE 0, scenario |-> 1]],
     dPower_Network |-> NetworkOf(lines, schema),
     networkIndex |-> IF schema = "reader" THEN {"i", "j", "c"} ELSE {"i", "j"},
     networkColumns |->
        IF schema = "reader" THEN {"pTecRepr", "pXline", "pPmax", "scenario"}
        ELSE {"pTecRepr", "Technical Representation", "X", "Pmax", "LineID", "scenario"},
     dPower_ThermalGen |->
        [n \in DOMAIN MergeBuses |-> [g |-> n, i |-> MergeBuses[n]]],
     dPower_VRES |->
        [n \in DOMAIN MergeBuses |-> [g |-> 10 + n, i |-> MergeBuses[n]]],
     dPower_Storage |->
        [n \in DOMAIN MergeBuses |-> [g |-> 20 + n, i |-> MergeBuses[n]]],
     pEnablePowerImportExport |-> hub # 0,
     dPower_ImpExpHubs |->
        IF hub = 0 THEN <<>> ELSE <<[hub |-> 1, i |-> MergeBuses[hub], scenario |-> 1]>>,
     dPower_Demand |->
        [n \in 1..(Len(MergeBuses) * Cardinality(MergeScenarios)) |->
            LET b == ((n - 1) % Len(MergeBuses)) + 1
                sc == ((n - 1) \div Len(MergeBuses)) + 1
            IN [rp |-> 1, k |-> 1, i |-> MergeBuses[b], value |-> 10 * sc + b,
                scenario |-> <<sc>>]],
     dPower_VRESProfiles |->
        [n \in DOMAIN MergeBuses |->
            [rp |-> 1, k |-> 1, i |-> MergeBuses[n], tec |-> 1, value |-> Q(n, 1)]],
     err |-> FALSE]

InitMerge ==
    /\ \E n \in 0..MaxLines, schema \in {"reader", "legacy"},
          hub \in 0..Len(MergeBuses) :
         \E lines \in [1..n -> LineChoices] :
            /\ \A m \in 1..(n - 1) : LineRank(lines[m]) <= LineRank(lines[m + 1])
            /\ mcs = InitialMergeCaseStudy(lines, schema, hub)
    /\ mgCalls = <<>>
    /\ IdleMatrix /\ IdleView /\ IdleScale /\ IdleExcel

merge_single_node_buses ==
    /\ Len(mgCalls) < MaxMergeCalls
    /\ LET after == MergeAll(mcs)
       IN /\ mcs' = [after EXCEPT !.err = FALSE]
          /\ mgCalls' = Append(mgCalls, [raised |-> after.err, pre |-> mcs])
    /\ UNCHANGED <<mxVars, vwVars, scVars, xlVars>>

NextMerge == merge_single_node_buses

(***************************************************************************)
(* Part 5: reading a workbook, writing the table back and comparing the    *)
(* two files (src/ExcelReader.py 41-95, 454-572, src/ExcelWriter.py        *)
(* 70-210, src/tests/test_ExcelReaderWriter.py 33-43)                      *)
(*                                                                         *)
(* A workbook is [kind, sheets]; a sheet is [name, header, rows]: header   *)
(* holds the labels of the pivoted columns in sheet order (none for a      *)
(* table that is not pivoted), a row is [excl, key, values] with the cell  *)
(* of the excl column ("" when empty), the cell of the index column and    *)
(* the cells of the value columns.  Power_BusInfo stands for the tables    *)
(* with an excl column, Power_Demand for the pivoted ones.  The seven      *)
(* header rows and the cell styles come from TableDefinitions.xml on both  *)
(* sides and are left out.                                                 *)
(***************************************************************************)
\* bounds of the workbooks drawn in InitExcel
MaxSheets == 2

MaxRows == 2

MaxKey == 2

RECURSIVE read_non_pivoted_file(_, _, _)
\* __read_non_pivoted_file: the sheets in workbook order, one whose name starts
\* with "~" skipped, the excluded rows dropped unless kept, the sheet name
\* added as the column scenario                                        (41-74)
read_non_pivoted_file(sheets, has_excl_column, keep_excl_columns) ==
    IF sheets = <<>> THEN <<>>
    ELSE LET scenario == Head(sheets).name
             rows == IF has_excl_column /\ ~keep_excl_columns
                     THEN SelectSeq(Head(sheets).rows, LAMBDA r : r.excl = "")
                     ELSE Head(sheets).rows
             df == [n \in DOMAIN rows |->
                      [excl |-> IF has_excl_column THEN rows[n].excl ELSE "",
                       key |-> rows[n].key, values |-> rows[n].values,
                       scenario |-> scenario]]
             rest == read_non_pivoted_file(Tail(sheets), has_excl_column,
                                           keep_excl_columns)
         IN IF scenario = "~Notes" THEN rest ELSE df \o rest

\* __read_pivoted_file: df.melt gives one row per value cell, column by column (77-95)
read_pivoted_file(sheets, columns) ==
    LET df == read_non_pivoted_file(sheets, FALSE, FALSE)
    IN [n \in 1..(Len(columns) * Len(df)) |->
          LET c == ((n - 1) \div Len(df)) + 1
              r == df[((n - 1) % Len(df)) + 1]
          IN [key |-> r.key, scenario |-> r.scenario, k |-> columns[c],
              value |-> r.values[c]]]

RECURSIVE Unique(_)
\* Series.unique(): the values in the order of their first appearance
Unique(s) ==
    IF s = <<>> THEN <<>>
    ELSE LET u == Unique(SubSeq(s, 1, Len(s) - 1))
         IN IF s[Len(s)] \in Range(u) THEN u ELSE Append(u, s[Len(s)])

\* _write_Excel_from_definition: one sheet per scenario of the data; pivoted
\* data goes through data.pivot, which raises on two rows for one cell and
\* returns the rows sorted by the index and the columns sorted by label;
\* a non-empty excl cell is written as 'X'; data without rows gives the one
\* sheet "ScenarioA"                                                  (70-210)
write_Excel_from_definition(data, pivoted) ==
    LET scenarios == Unique([n \in DOMAIN data |-> data[n].scenario])
        duplicates == \E m \in DOMAIN data, n \in DOMAIN data :
                         /\ m # n /\ data[m].key = data[n].key
                         /\ data[m].scenario = data[n].scenario /\ data[m].k = data[n].k
        columns == SortedSeq({data[n].k : n \in DOMAIN data})
        cell(key, scenario, k) ==
            LET hits == {n \in DOMAIN data : /\ data[n].key = key
                                             /\ data[n].scenario = scenario
                                             /\ data[n].k = k}
            IN IF hits = {} THEN -1 ELSE data[CHOOSE n \in hits : TRUE].value
        pivotedRows(scenario) ==
            LET keys == SortedSeq({data[n].key : n \in {m \in DOMAIN data :
                                                          data[m].scenario = scenario}})
            IN [i \in DOMAIN keys |->
                  [excl |-> "", key |-> keys[i],
                   values |-> [c \in DOMAIN columns |-> cell(keys[i], scenario, columns[c])]]]
        plainRows(scenario) ==
            LET scenario_data == SelectSeq(data, LAMBDA r : r.scenario = scenario)
            IN [i \in DOMAIN scenario_data |->
                  [excl |-> IF scenario_data[i].excl # "" THEN "X" ELSE "",
                   key |-> scenario_data[i].key, values |-> scenario_data[i].values]]
    IN IF pivoted /\ duplicates THEN [raised |-> TRUE, sheets |-> <<>>]
       ELSE IF Len(data) = 0
       THEN [raised |-> FALSE,
             sheets |-> <<[name |-> "ScenarioA", header |-> <<>>, rows |-> <<>>]>>]
       ELSE [raised |-> FALSE,
             sheets |-> [i \in DOMAIN scenarios |->
                           [name |-> scenarios[i],
                            header |-> IF pivoted THEN columns ELSE <<>>,
                            rows |-> IF pivoted THEN pivotedRows(scenarios[i])
                                     ELSE plainRows(scenarios[i])]]]

\* compare_Excels: every sheet of the source must be in the target, with the
\* same number of rows and columns and equal cells where both have one; two
\* numbers are equal when abs(s - t) / (s or 1) is below the precision 1e-6
\*                                                                   (454-572)
compare_Excels(source, target) ==
    LET abs(x) == IF x < 0 THEN -x ELSE x
        differ(x, y) == x # y /\ abs(x - y) * 1000000 >= (IF x # 0 THEN x ELSE 1)
        sameCells(s, t) ==
            /\ \A c \in DOMAIN s.header \cap DOMAIN t.header : ~differ(s.header[c], t.header[c])
            /\ \A r \in DOMAIN s.rows \cap DOMAIN t.rows :
                  /\ s.rows[r].excl = t.rows[r].excl
                  /\ ~differ(s.rows[r].key, t.rows[r].key)
                  /\ \A c \in DOMAIN s.rows[r].values \cap DOMAIN t.rows[r].values :
                        ~differ(s.rows[r].values[c], t.rows[r].values[c])
    IN \A m \in DOMAIN source :
          \E n \in DOMAIN target :
              /\ target[n].name = source[m].name
              /\ sameCells(source[m], target[n])
              /\ Len(source[m].header) = Len(target[n].header)
              /\ Len(source[m].rows) = Len(target[n].rows)

\* the workbooks: one or two sheets with distinct names, the first a scenario
\* sheet, the pivoted columns the same on every sheet; the value cells are
\* told apart by their row and column
InitExcel ==
    /\ \E kind \in {"Power_BusInfo", "Power_Demand"},
          names \in {<<"ScenarioA">>, <<"ScenarioB">>, <<"ScenarioA", "ScenarioB">>,
                     <<"ScenarioB", "ScenarioA">>, <<"ScenarioA", "~Notes">>},
          header \in {<<1, 2>>, <<2, 1>>} :
         LET cells == IF kind = "Power_BusInfo"
                      THEN {[excl |-> e, key |-> i, values |-> <<10 * i>>] :
                               e \in {"", "X", "x"}, i \in 1..MaxKey}
                      ELSE {[excl |-> "", key |-> i,
                             values |-> [c \in DOMAIN header |-> 10 * i + header[c]]] :
                               i \in 1..MaxKey}
             tables == UNION {[1..n -> cells] : n \in 0..MaxRows}
         IN \E rows \in [DOMAIN names -> tables] :
               /\ Len(names) <= MaxSheets
               /\ kind = "Power_BusInfo" => header = <<1, 2>>
               /\ xlSource = [kind |-> kind,
                              sheets |-> [n \in DOMAIN names |->
                                 [name |-> names[n],
                                  header |-> IF kind = "Power_BusInfo" THEN <<>> ELSE header,
                                  rows |-> rows[n]]]]
    /\ xlData = <<>>
    /\ xlTarget = <<>>
    /\ xlStatus = "source"
    /\ IdleMatrix /\ IdleView /\ IdleScale /\ IdleMerge

\* data = read(file_path, keep_excluded_entries, True): get_Power_BusInfo reads
\* a table with an excl column, get_Power_Demand a pivoted one
\* (src/ExcelReader.py 156, 169; the test passes keep_excluded_entries = True)
read(keep_excluded_entries) ==
    /\ xlStatus = "source"
    /\ xlData' = [keep |-> keep_excluded_entries,
                  rows |-> IF xlSource.kind = "Power_BusInfo"
                           THEN read_non_pivoted_file(xlSource.sheets, TRUE,
                                                      keep_excluded_entries)
                           ELSE read_pivoted_file(xlSource.sheets,
                                                  xlSource.sheets[1].header)]
    /\ xlStatus' = "read"
    /\ UNCHANGED <<xlSource, xlTarget>>
    /\ UNCHANGED <<mxVars, vwVars, scVars, mgVars>>

\* write(data, tmp_path): write_Power_BusInfo or write_Power_Demand
write ==
    /\ xlStatus = "read"
    /\ LET written == write_Excel_from_definition(xlData.rows,
                                                  xlSource.kind = "Power_Demand")
       IN /\ xlTarget' = written.sheets
          /\ xlStatus' = IF written.raised THEN "raised" ELSE "written"
    /\ UNCHANGED <<xlSource, xlData>>
    /\ UNCHANGED <<mxVars, vwVars, scVars, mgVars>>

\* filesEqual = compare_Excels(file_path, written file)
compare ==
    /\ xlStatus = "written"
    /\ xlStatus' = IF compare_Excels(xlSource.sheets, xlTarget) THEN "equal" ELSE "different"
    /\ UNCHANGED <<xlSource, xlData, xlTarget>>
    /\ UNCHANGED <<mxVars, vwVars, scVars, mgVars>>

NextExcel ==
    \/ \E keep_excluded_entries \in BOOLEAN : read(keep_excluded_entries)
    \/ write
    \/ compare

(***************************************************************************)
(* The specifications                                                      *)
(***************************************************************************)
SpecMatrix == InitMatrix /\ [][NextMatrix]_vars

SpecView == InitView /\ [][NextView]_vars

SpecChain == InitChain /\ [][NextChain]_vars

SpecKmed == InitKmed /\ [][NextKmed]_vars

SpecScale == InitScale /\ [][NextScale]_vars

SpecMerge == InitMerge /\ [][NextMerge]_vars

SpecExcel == InitExcel /\ [][NextExcel]_vars

(***************************************************************************)
(* Claims on the transition matrices                                       *)
(***************************************************************************)
\* block t of the time index carries one rp label on all its hours
BlockLen(hindex) == Cardinality({hindex[h].k : h \in DOMAIN hindex})

BlockAligned(hindex) ==
    /\ Len(hindex) % BlockLen(hindex) = 0
    /\ \A h \in DOMAIN hindex :
          hindex[h].rp = hindex[((h - 1) \div BlockLen(hindex)) * BlockLen(hindex) + 1].rp

BlockSequence(hindex) ==
    [t \in 1..(Len(hindex) \div BlockLen(hindex)) |->
        hindex[(t - 1) * BlockLen(hindex) + 1].rp]

One == <<1, 1>>

\* C3: for every clip method and every time index, each row of
\* rpTransitionMatrixRelativeTo sums to 1 unless that row of the (clipped)
\* absolute matrix sums to 0, and then the row is NaN and nothing is raised;
\* each column of rpTransitionMatrixRelativeFrom sums to 1 unless that column
\* of the absolute matrix sums to 0, and then the column is NaN.
C3_Normalized ==
    mxStatus = "done" =>
        LET abs == rpTransitionMatrixAbsolute
            R == DOMAIN abs
        IN /\ \A a \in R :
                IF RowSum(abs, a) = 0
                THEN \A b \in R : rpTransitionMatrixRelativeTo[a][b] = NaN
                ELSE RatEq(RatSum(R, rpTransitionMatrixRelativeTo[a]), One)
           /\ \A b \in R :
                IF ColSum(abs, b) = 0
                THEN \A a \in R : rpTransitionMatrixRelativeFrom[a][b] = NaN
                ELSE RatEq(RatSum(R, [a \in R |-> rpTransitionMatrixRelativeFrom[a][b]]), One)

\* a clipped matrix with a row and a column that sum to 0
C3_W ==
    /\ mxStatus = "done" /\ clip_method = "absolute_count"
    /\ \E b \in DOMAIN rpTransitionMatrixAbsolute :
          ColSum(rpTransitionMatrixAbsolute, b) = 0
    /\ \E a \in DOMAIN rpTransitionMatrixAbsolute :
          /\ RowSum(rpTransitionMatrixAbsolute, a) = 0
          /\ rpTransitionMatrixRelativeTo[a][a] = NaN
    /\ \E a \in DOMAIN rpTransitionMatrixAbsolute :
          RowSum(rpTransitionMatrixAbsolute, a) > 1

\* C10: with clip_method "none", for a time index whose block sequence is
\* s[0..n-1], rpTransitionMatrixAbsolute[a][b] is the number of t in 0..n-1
\* with s[(t-1) mod n] = a and s[t] = b, so all entries sum to n; the sequence
\* [rp1, rp2, rp1, rp2] gives (rp1,rp2) = 2, (rp2,rp1) = 2 and 0 elsewhere,
\* with both relative matrices equal to 1 in those two cells.
C10_Counts ==
    (mxStatus = "done" /\ clip_method = "none" /\ BlockAligned(dPower_Hindex)) =>
        LET s == BlockSequence(dPower_Hindex)
            n == Len(s)
            abs == rpTransitionMatrixAbsolute
            R == DOMAIN abs
        IN /\ R = Range(s)
           /\ \A a \in R, b \in R :
                abs[a][b] = Cardinality({t \in 0..(n - 1) :
                                s[((t - 1) % n) + 1] = a /\ s[t + 1] = b})
           /\ SumOver(R, [a \in R |-> RowSum(abs, a)]) = n
           /\ s = <<1, 2, 1, 2>> =>
                /\ abs = (1 :> (1 :> 0 @@ 2 :> 2) @@ 2 :> (1 :> 2 @@ 2 :> 0))
                /\ \A m \in {rpTransitionMatrixRelativeTo, rpTransitionMatrixRelativeFrom} :
                      RatEq(m[1][2], One) /\ RatEq(m[2][1], One)

\* the example sequence, and a sequence whose first block differs from its last
C10_W ==
    /\ mxStatus = "done" /\ clip_method = "none" /\ BlockAligned(dPower_Hindex)
    /\ BlockLen(dPower_Hindex) = 2
    /\ BlockSequence(dPower_Hindex) = <<1, 2, 1, 2>>
    /\ rpTransitionMatrixAbsolute[2][1] = 2

\* the n-th largest entry of a row, counted with multiplicity (the smallest
\* entry when the row has fewer than n entries)
RowNthLargest(row, n) ==
    IF n > Cardinality(DOMAIN row) THEN Min({row[b] : b \in DOMAIN row})
    ELSE CHOOSE v \in {row[b] : b \in DOMAIN row} :
            /\ Cardinality({b \in DOMAIN row : row[b] > v}) < n
            /\ Cardinality({b \in DOMAIN row : row[b] >= v}) >= n

\* C11: for clip_method "absolute_count" with a positive integer clip_value n,
\* in each row of the absolute matrix every entry greater than or equal to the
\* row's n-th largest entry keeps its value and every smaller entry becomes 0,
\* so entries tied at the threshold are all kept; the row [5, 5, 2] with n = 1
\* becomes [5, 5, 0].
C11_AbsoluteCount ==
    /\ (mxStatus = "done" /\ clip_method = "absolute_count"
           /\ clip_value[2] = 1 /\ clip_value[1] >= 1) =>
          LET counted == CountTransitions(dPower_Hindex)
              n == clip_value[1]
          IN /\ DOMAIN rpTransitionMatrixAbsolute = DOMAIN counted
             /\ \A a \in DOMAIN counted, b \in DOMAIN counted :
                   rpTransitionMatrixAbsolute[a][b]
                      = IF counted[a][b] >= RowNthLargest(counted[a], n)
                        THEN counted[a][b] ELSE 0
    /\ ClipAbsoluteCount(1 :> (1 :> 5 @@ 2 :> 5 @@ 3 :> 2), 1)
          = (1 :> (1 :> 5 @@ 2 :> 5 @@ 3 :> 0))

\* a call with n = 1 that set a positive entry below the row's largest to 0
C11_W ==
    /\ mxStatus = "done" /\ clip_method = "absolute_count" /\ clip_value = <<1, 1>>
    /\ \E a \in DOMAIN rpTransitionMatrixAbsolute, b \in DOMAIN rpTransitionMatrixAbsolute :
          /\ CountTransitions(dPower_Hindex)[a][b] > 0
          /\ rpTransitionMatrixAbsolute[a][b] = 0

\* a call with clip_method 'absolute_count' that returned
ClippedByCount == mxStatus = "done" /\ clip_method = "absolute_count"

\* the entries of row a that the clipping left as they were counted (the
\* entries not below the row's threshold)
KeptEntries(a) ==
    LET counted == CountTransitions(dPower_Hindex)
    IN {b \in DOMAIN counted[a] :
           ~LessThan(counted[a][b], NthLargestMin(counted[a], clip_value[1]))}

\* C24: during 'absolute_count' clipping with clip_value n >= 1 the tie warning
\* is emitted for a row if and only if more than n entries of that row are
\* kept; a row in which exactly n or fewer entries survive produces no warning.
C24_TieWarning ==
    (ClippedByCount /\ clip_value[1] >= 1) =>
        \A a \in DOMAIN rpTransitionMatrixAbsolute :
            a \in mxWarnings <=> Cardinality(KeptEntries(a)) > clip_value[1]

\* a row that keeps more than n entries is warned about
C24_WarnedWhenMore ==
    (ClippedByCount /\ clip_value[1] >= 1) =>
        \A a \in DOMAIN rpTransitionMatrixAbsolute :
            Cardinality(KeptEntries(a)) > clip_value[1] => a \in mxWarnings

\* a row with two entries tied at the threshold of n = 1
C24_WarnedWhenMoreW ==
    /\ ClippedByCount /\ clip_value = <<1, 1>>
    /\ \E a \in mxWarnings :
          /\ Cardinality(KeptEntries(a)) = 2
          /\ \E b \in DOMAIN rpTransitionMatrixAbsolute[a] :
                rpTransitionMatrixAbsolute[a][b] = 0 /\ b \notin KeptEntries(a)

\* C25: for clip_method 'absolute_count' with clip_value 0, which is accepted
\* as a valid non-negative integer, no entry is kept: every entry of
\* rpTransitionMatrixAbsolute is 0 after clipping.
C25_ClipToZero ==
    (clip_method = "absolute_count" /\ clip_value = <<0, 1>> /\ mxStatus # "new") =>
        /\ mxStatus = "done"
        /\ \A a \in DOMAIN rpTransitionMatrixAbsolute :
              \A b \in DOMAIN rpTransitionMatrixAbsolute[a] :
                  rpTransitionMatrixAbsolute[a][b] = 0

\* clip_value 0 is accepted, and the matrix is returned as counted
C25_Accepted ==
    (clip_method = "absolute_count" /\ clip_value = <<0, 1>> /\ mxStatus # "new") =>
        /\ mxStatus = "done"
        /\ rpTransitionMatrixAbsolute = CountTransitions(dPower_Hindex)
        /\ mxWarnings = {}

\* a call with clip_value 0 on three representative periods
C25_AcceptedW ==
    /\ ClippedByCount /\ clip_value = <<0, 1>>
    /\ Cardinality(DOMAIN rpTransitionMatrixAbsolute) = 3

(***************************************************************************)
(* Claims on the views                                                     *)
(***************************************************************************)
Last == calls[Len(calls)]

ScenarioRows(rows, name) == {r \in rows : r.scenario = name}

\* the rows a table holds once the scenario-dependent tables are filtered
FilteredRows(pre, a, name) ==
    IF a \in Range(scenario_dependent_dataframes) THEN ScenarioRows(pre[a].rows, name)
    ELSE pre[a].rows

ViewOps ==
    {"filter_timesteps", "filter_representative_periods", "shift_ks",
     "to_full_hourly_model"}

\* C7: filter_scenario(name, inplace=False) leaves every table of the receiver
\* unchanged and returns a new CaseStudy whose scenario-dependent tables hold
\* exactly the receiver's rows of scenario name; filter_scenario(name,
\* inplace=True) returns None and leaves the receiver holding the filtered tables.
C7_FilterScenario ==
    (calls # <<>> /\ Last.op = "filter_scenario" /\ ~Last.raised) =>
        LET pre == Last.pre[Last.recv]
            name == Last.arg[1]
            now == Contents(objects[Last.recv], heap)
        IN IF Last.inplace
           THEN /\ Last.result = None
                /\ \A a \in DOMAIN now : now[a].rows = FilteredRows(pre, a, name)
           ELSE /\ now = pre
                /\ Last.result # None
                /\ LET res == Contents(objects[Last.result], heap)
                   IN \A a \in DOMAIN res : res[a].rows = FilteredRows(pre, a, name)

\* the in-place half of C7 alone
C7_InplaceHalf ==
    (calls # <<>> /\ Last.op = "filter_scenario" /\ ~Last.raised /\ Last.inplace) =>
        /\ Last.result = None
        /\ \A a \in DOMAIN objects[Last.recv] :
              Contents(objects[Last.recv], heap)[a].rows
                  = FilteredRows(Last.pre[Last.recv], a, Last.arg[1])

\* the scenario-dependent tables of an instance that hold rows, none of them of
\* the scenario name
TablesWithout(pre, name) ==
    {a \in DOMAIN pre \cap Range(scenario_dependent_dataframes) :
        /\ ~pre[a].isNone
        /\ pre[a].rows # {}
        /\ ScenarioRows(pre[a].rows, name) = {}}

\* the scenario-dependent attributes of an instance that are bound to None
NoneTables(pre) ==
    {a \in DOMAIN pre \cap Range(scenario_dependent_dataframes) : pre[a].isNone}

\* C12: filter_scenario(name) raises whenever some scenario-dependent table of
\* the CaseStudy holds rows and none of scenario name, and a table that was
\* empty before the call does not make it raise.
C12_ScenarioNotFound ==
    (calls # <<>> /\ Last.op = "filter_scenario") =>
        LET pre == Last.pre[Last.recv]
            name == Last.arg[1]
        IN /\ TablesWithout(pre, name) # {} => Last.raised
           /\ (TablesWithout(pre, name) = {} /\ NoneTables(pre) = {}) => ~Last.raised

\* a call that went past an empty table and raised at a later one that holds
\* rows of another scenario only
C12_W ==
    /\ calls # <<>> /\ Last.op = "filter_scenario" /\ Last.raised
    /\ LET pre == Last.pre[Last.recv]
       IN /\ ~pre["dPower_ImpExpProfiles"].isNone
          /\ pre["dPower_ImpExpProfiles"].rows = {}
          /\ TablesWithout(pre, Last.arg[1]) = {"dPower_VRESProfiles"}

\* a call that returned although a table was empty before it
C12_WEmpty ==
    /\ calls # <<>> /\ Last.op = "filter_scenario" /\ ~Last.raised
    /\ \E a \in DOMAIN Last.pre[Last.recv] \cap Range(scenario_dependent_dataframes) :
          ~Last.pre[Last.recv][a].isNone /\ Last.pre[Last.recv][a].rows = {}

\* C4: filter_scenario(s) applied to the result of a successful
\* filter_scenario(s) yields tables equal to those of the first result, both
\* chained in place on one instance and chained through the returned copies.
C4_FilterTwice ==
    (/\ Len(calls) = 2
     /\ calls[1].op = "filter_scenario" /\ calls[2].op = "filter_scenario"
     /\ calls[1].arg = calls[2].arg
     /\ calls[1].inplace = calls[2].inplace
     /\ ~calls[1].raised /\ ~calls[2].raised) =>
        IF calls[1].inplace
        THEN calls[2].recv = calls[1].recv =>
                Contents(objects[calls[2].recv], heap) = calls[2].pre[calls[2].recv]
        ELSE calls[2].recv = calls[1].result =>
                Contents(objects[calls[2].result], heap)
                    = Contents(objects[calls[1].result], heap)

\* the number of distinct k labels of a table
NumLabels(rows) == Cardinality({r.k : r \in rows})

ShiftedTables == {"dPower_Demand", "dPower_ImpExpProfiles", "dPower_VRESProfiles"}

\* C5: with N the number of distinct k labels, shift_ks(n) followed by
\* shift_ks(-n mod N) leaves every shifted rpk-dependent table with the same
\* row data at every key as before the two calls.
C5_ShiftRoundTrip ==
    (/\ Len(calls) = 2
     /\ calls[1].op = "shift_ks" /\ calls[2].op = "shift_ks"
     /\ calls[1].inplace = calls[2].inplace
     /\ calls[2].recv = (IF calls[1].inplace THEN calls[1].recv ELSE calls[1].result)
     /\ ~calls[1].raised /\ ~calls[2].raised) =>
        LET before == calls[1].pre[calls[1].recv]
            N == NumLabels(before["dPower_Demand"].rows)
            final == IF calls[2].inplace THEN calls[2].recv ELSE calls[2].result
            after == Contents(objects[final], heap)
        IN calls[2].arg[1] = (-calls[1].arg[1]) % N =>
              \A a \in ShiftedTables \cap DOMAIN before : after[a] = before[a]

\* the index of a row and the index of a table
RowKey(r) == <<r.scenario, r.rp, r.k, r.key>>
RowKeys(rows) == {RowKey(r) : r \in rows}

\* the instance that holds the outcome of a call
Outcome(call) == IF call.inplace THEN call.recv ELSE call.result

\* the k labels of a table are consecutive numbers
Consecutive(rows) ==
    LET ks == {ParseInt(r.k) : r \in rows}
    IN ks # {} => Cardinality(ks) = Max(ks) - Min(ks) + 1

\* C13: for every shifted rpk-dependent table, every integer shift and any set
\* of k labels present in the table, the set of row keys (the (rp, k) pairs
\* among them) after shift_ks equals the set before, and no two rows collapse
\* onto one key.
C13_ShiftKeepsKeys ==
    (calls # <<>> /\ Last.op = "shift_ks" /\ ~Last.raised) =>
        LET before == Last.pre[Last.recv]
            after == Contents(objects[Outcome(Last)], heap)
        IN \A a \in ShiftedTables \cap DOMAIN before :
              /\ RowKeys(after[a].rows) = RowKeys(before[a].rows)
              /\ Cardinality(RowKeys(after[a].rows)) = Cardinality(before[a].rows)

\* C13 on tables whose k labels are consecutive numbers
C13_ConsecutiveLabels ==
    (calls # <<>> /\ Last.op = "shift_ks" /\ ~Last.raised) =>
        LET before == Last.pre[Last.recv]
            after == Contents(objects[Outcome(Last)], heap)
        IN \A a \in ShiftedTables \cap DOMAIN before :
              Consecutive(before[a].rows) =>
                 /\ RowKeys(after[a].rows) = RowKeys(before[a].rows)
                 /\ Cardinality(RowKeys(after[a].rows)) = Cardinality(before[a].rows)

\* the rows of a table with the data of the i-th k label (i from 0) put at the
\* ((i + by) mod N)-th of its N distinct k labels
Rotated(rows, by) ==
    LET labels == SortedSeq({ParseInt(r.k) : r \in rows})
        N == Len(labels)
        pos(k) == CHOOSE i \in 1..N : labels[i] = ParseInt(k)
    IN {[r EXCEPT !.k = FormatK(labels[((pos(r.k) - 1 + by) % N) + 1])] : r \in rows}

\* C20: shift_ks(shift) with 0 < shift < N (N distinct k labels) moves the
\* data of the first shift timesteps to the back of the time series: in every
\* shifted table the data that was at the i-th k label ends up at the
\* ((i - shift) mod N)-th k label.
C20_FirstToBack ==
    (calls # <<>> /\ Last.op = "shift_ks" /\ ~Last.raised) =>
        LET before == Last.pre[Last.recv]
            after == Contents(objects[Outcome(Last)], heap)
        IN \A a \in ShiftedTables \cap DOMAIN before :
              (0 < Last.arg[1] /\ Last.arg[1] < NumLabels(before[a].rows)) =>
                  after[a].rows = Rotated(before[a].rows, -Last.arg[1])

\* what the call does on consecutive k labels: the data that was at the i-th
\* label ends up at the ((i + shift) mod N)-th, the last shift timesteps move
\* to the front
C20_LastToFront ==
    (calls # <<>> /\ Last.op = "shift_ks" /\ ~Last.raised) =>
        LET before == Last.pre[Last.recv]
            after == Contents(objects[Outcome(Last)], heap)
        IN \A a \in ShiftedTables \cap DOMAIN before :
              (Consecutive(before[a].rows) /\ before[a].rows # {}) =>
                  after[a].rows = Rotated(before[a].rows, Last.arg[1])

\* a shift by 1 of a table with three consecutive k labels
C20_LastToFrontW ==
    /\ calls # <<>> /\ Last.op = "shift_ks" /\ ~Last.raised /\ Last.arg[1] = 1
    /\ NumLabels(Last.pre[Last.recv]["dPower_Demand"].rows) = 3
    /\ Consecutive(Last.pre[Last.recv]["dPower_Demand"].rows)

\* the matrices of an instance are square over the labels R and hold no
\* negative entry
MatricesOver(m, R) ==
    /\ \A name \in {"Absolute", "RelativeTo", "RelativeFrom"} :
          /\ DOMAIN m[name] = R
          /\ \A a \in DOMAIN m[name] : DOMAIN m[name][a] = R
    /\ \A a \in DOMAIN m.Absolute : \A b \in DOMAIN m.Absolute[a] :
          /\ m.Absolute[a][b] >= 0
          /\ m.RelativeTo[a][b][1] >= 0
          /\ m.RelativeFrom[a][b][1] >= 0

\* the distinct rp names of the time-index table an instance holds now
CurrentRPs(c) == {r.rp : r \in heap[objects[c]["dPower_Hindex"]]}

\* C18: in every state reached by construction followed by filter_scenario,
\* filter_timesteps, filter_representative_periods, shift_ks,
\* to_full_hourly_model and k-medoids aggregation, the three transition
\* matrices of every CaseStudy are square, their row and column labels are
\* the distinct rp names of its current time-index table, and no entry is
\* negative.
C18_MatrixLabels ==
    \A c \in DOMAIN objects : MatricesOver(transitionMatrices[c], CurrentRPs(c))

\* C18 after construction and copy()
C18_Constructed ==
    calls = <<>> =>
        \A c \in DOMAIN objects : MatricesOver(transitionMatrices[c], CurrentRPs(c))

\* C18 after the operations that leave the rp names of the time index alone
C18_SameRPs ==
    \A c \in DOMAIN objects :
        (calls # <<>> /\ CurrentRPs(c) = {r.rp : r \in Last.pre[Last.recv]["dPower_Hindex"].rows})
            => MatricesOver(transitionMatrices[c], CurrentRPs(c))

\* C8: for filter_timesteps, filter_representative_periods, shift_ks and
\* to_full_hourly_model, a call with inplace=False that completes leaves the
\* tables of the receiver (and of every other instance) unchanged and returns
\* a CaseStudy bound to no DataFrame object of another instance; a call with
\* inplace=True returns None, creates no instance and leaves the modified
\* tables in the receiver; an in-place mutation of one instance changes no
\* table of another instance; and apply_kmedoids_aggregation, whether it
\* returns or raises, leaves every table of the CaseStudy passed to it unchanged
\* and returns a CaseStudy bound to none of its DataFrame objects.
C8_ViewFrame ==
    /\ (calls # <<>> /\ Last.op \in ViewOps /\ ~Last.raised) =>
          IF Last.inplace
          THEN /\ Last.result = None
               /\ Len(objects) = Len(Last.pre)
               /\ LET now == Contents(objects[Last.recv], heap)
                      pre == Last.pre[Last.recv]
                  IN /\ Last.op = "filter_representative_periods" =>
                          now["dPower_Demand"].rows
                              = {r \in pre["dPower_Demand"].rows : r.rp = Last.arg[1]}
                     /\ Last.op = "filter_timesteps" =>
                          now["dPower_Demand"].rows
                              = {r \in pre["dPower_Demand"].rows :
                                    StrLE(Last.arg[1], r.k) /\ StrLE(r.k, Last.arg[2])}
          ELSE /\ Last.result = Len(Last.pre) + 1
               /\ Len(objects) = Len(Last.pre) + 1
               /\ \A c \in DOMAIN Last.pre :
                     /\ Contents(objects[c], heap) = Last.pre[c]
                     /\ Refs(objects[Last.result]) \cap Refs(objects[c]) = {}
    /\ (calls # <<>> /\ Last.inplace) =>
          \A c \in DOMAIN objects \ {Last.recv} :
              Contents(objects[c], heap) = Last.pre[c]
    /\ (calls # <<>> /\ Last.op = "apply_kmedoids_aggregation") =>
          /\ \A c \in DOMAIN Last.pre : Contents(objects[c], heap) = Last.pre[c]
          /\ ~Last.raised =>
                /\ Last.result = Len(Last.pre) + 1
                /\ Refs(objects[Last.result]) \cap Refs(objects[Last.recv]) = {}

\* a copy made with inplace=False, and an in-place mutation next to a copy
C8_W ==
    /\ calls # <<>> /\ Last.op = "shift_ks" /\ ~Last.inplace /\ ~Last.raised
    /\ Last.arg[1] = 1
    /\ Contents(objects[Last.result], heap) # Last.pre[Last.recv]

C8_W2 ==
    /\ calls # <<>> /\ Last.op = "scale_dPower_Demand" /\ Len(objects) = 2
    /\ Contents(objects[Last.recv], heap) # Last.pre[Last.recv]

\* an aggregation that returned a CaseStudy with other demand rows
C8_W3 ==
    /\ calls # <<>> /\ Last.op = "apply_kmedoids_aggregation" /\ ~Last.raised
    /\ Contents(objects[Last.result], heap)["dPower_Demand"]
           # Last.pre[Last.recv]["dPower_Demand"]

\* C27 (filter_scenario): whenever filter_scenario raises because the scenario
\* is missing from some table, every table of the CaseStudy equals its value
\* before the call.
C27_FilterAllOrNothing ==
    (calls # <<>> /\ Last.op = "filter_scenario" /\ Last.raised
        /\ NoneTables(Last.pre[Last.recv]) = {}) =>
        Contents(objects[Last.recv], heap) = Last.pre[Last.recv]

\* the attributes of an instance that are bound to None
NoneAttrs(c) == {a \in DOMAIN objects[c] : objects[c][a] = None}

\* a call of one of the operations on an instance built with import/export off
OnDisabledImpExp(ops) ==
    /\ calls # <<>> /\ Last.op \in ops
    /\ Last.pre[Last.recv]["dPower_ImpExpHubs"].isNone
    /\ Last.pre[Last.recv]["dPower_ImpExpProfiles"].isNone

\* the call returned and the None tables are None in the instance and in the
\* instance returned
NoneKept ==
    /\ ~Last.raised
    /\ {"dPower_ImpExpHubs", "dPower_ImpExpProfiles"} \subseteq NoneAttrs(Last.recv)
    /\ Last.result # None =>
          {"dPower_ImpExpHubs", "dPower_ImpExpProfiles"} \subseteq NoneAttrs(Last.result)

\* C29: on a CaseStudy built with import/export disabled, where
\* dPower_ImpExpHubs and dPower_ImpExpProfiles are None, each of
\* filter_scenario, filter_timesteps, filter_representative_periods and shift_ks
\* completes without error and leaves the None tables as None.
C29_NoneTables ==
    OnDisabledImpExp({"filter_scenario", "filter_timesteps",
                      "filter_representative_periods", "shift_ks"}) => NoneKept

\* C29 for the two operations that test for None
C29_TimestepsAndShift ==
    OnDisabledImpExp({"filter_timesteps", "shift_ks"}) =>
        /\ NoneKept
        /\ Last.op = "filter_timesteps" =>
              LET c == IF Last.inplace THEN Last.recv ELSE Last.result
              IN heap[objects[c]["dPower_Demand"]]
                    = {r \in Last.pre[Last.recv]["dPower_Demand"].rows :
                          StrLE(Last.arg[1], r.k) /\ StrLE(r.k, Last.arg[2])}

\* filter_timesteps on such an instance that dropped rows of the demand
C29_TimestepsAndShiftW ==
    /\ OnDisabledImpExp({"filter_timesteps"}) /\ ~Last.inplace
    /\ heap[objects[Last.result]["dPower_Demand"]] # Last.pre[Last.recv]["dPower_Demand"].rows
    /\ heap[objects[Last.result]["dPower_Demand"]] # {}

(***************************************************************************)
(* Claims on the k-medoids aggregation                                     *)
(***************************************************************************)
\* the hours of the original horizon of a scenario: its distinct (rp, k)
OriginalHours(pre, scenario) ==
    Cardinality({<<r.rp, r.k>> : r \in OfScenario(pre["dPower_Demand"].rows, scenario)})

\* sum of pWeight_rp over the representative periods of a scenario
WeightSum(rows, scenario) ==
    SumOver(OfScenario(rows, scenario), [r \in OfScenario(rows, scenario) |-> r.value[1]])

\* C6: after apply_kmedoids_aggregation with period length L has returned, for
\* every scenario and for both cluster strategies, the sum of pWeight_rp over
\* the scenario's representative periods, times L, is the number of hours of
\* the scenario's original horizon.
C6_WeightSum ==
    (calls # <<>> /\ Last.op = "apply_kmedoids_aggregation" /\ ~Last.raised) =>
        LET pre == Last.pre[Last.recv]
            weights == Contents(objects[Last.result], heap)["dPower_WeightsRP"].rows
        IN \A scenario \in {r.scenario : r \in pre["dGlobal_Scenarios"].rows} :
              WeightSum(weights, scenario) * Last.arg[2] = OriginalHours(pre, scenario)

\* the same for the aggregated strategy alone
C6_Aggregated ==
    (calls # <<>> /\ Last.op = "apply_kmedoids_aggregation" /\ ~Last.raised
        /\ Last.arg[3] = "aggregated") =>
        LET pre == Last.pre[Last.recv]
            weights == Contents(objects[Last.result], heap)["dPower_WeightsRP"].rows
        IN \A scenario \in {r.scenario : r \in pre["dGlobal_Scenarios"].rows} :
              WeightSum(weights, scenario) * Last.arg[2] = OriginalHours(pre, scenario)

\* an aggregated clustering into two representative periods
C6_AggregatedW ==
    /\ calls # <<>> /\ Last.op = "apply_kmedoids_aggregation" /\ ~Last.raised
    /\ Last.arg = <<2, 1, "aggregated">>
    /\ Len(objects) = 2

\* an aggregation that returned
Aggregated == calls # <<>> /\ Last.op = "apply_kmedoids_aggregation" /\ ~Last.raised

\* the absolute hour of a row of the original tables: the p of its (rp, k) in
\* the original time index
HourOf(pre, q) ==
    LET h == CHOOSE x \in pre["dPower_Hindex"].rows :
                 x.scenario = q.scenario /\ x.rp = q.rp /\ x.k = q.k
    IN h.key

\* the rows of scenario at absolute hour p of an original table, labelled (rp r, k)
CopiedRows(pre, a, scenario, p, r, k) ==
    {[q EXCEPT !.rp = r, !.k = FormatK(k)] :
        q \in {x \in OfScenario(pre[a].rows, scenario) : HourOf(pre, x) = p}}

\* the time-series tables of an instance that hold rows of the scenario
SeriesTables(pre, scenario) ==
    {a \in {"dPower_Demand", "dPower_VRESProfiles"} \cap DOMAIN pre :
        OfScenario(pre[a].rows, scenario) # {}}

\* the rp labels of the rows of a scenario
RPsOf(rows, scenario) == {x.rp : x \in OfScenario(rows, scenario)}

\* what C28 states of the aggregation that returned last
MedoidBlocksCopied ==
    LET pre == Last.pre[Last.recv]
        post == Contents(objects[Last.result], heap)
        L == Last.arg[2]
    IN \A scenario \in {x.scenario : x \in pre["dGlobal_Scenarios"].rows} :
          LET blocks == OriginalHours(pre, scenario) \div L
              rps == RPsOf(post["dPower_WeightsRP"].rows, scenario)
          IN /\ RPsOf(post["dPower_Hindex"].rows, scenario) = rps
             /\ \A a \in SeriesTables(pre, scenario) :
                   /\ RPsOf(post[a].rows, scenario) = rps
                   /\ \A r \in rps :
                         \E m \in 0..(blocks - 1) :
                            \A k \in 1..L :
                               LET at == {x \in OfScenario(post[a].rows, scenario) :
                                             x.rp = r /\ x.k = FormatK(k)}
                               IN /\ at # {}
                                  /\ at = CopiedRows(pre, a, scenario, m * L + k, r, k)

\* C28: after apply_kmedoids_aggregation with period length L, for every
\* scenario, every new representative period r (the r-th cluster centre,
\* original block index m) and every step k in 1..L, the demand and
\* VRES-profile rows at (rp r, k) carry exactly the values of the original rows
\* of that scenario at absolute hour m * L + k, each representative period has
\* rows for all L steps, and the set of rp labels used in these tables equals
\* the set of rp labels in the new weights and time-index tables.
C28_MedoidBlocks == Aggregated => MedoidBlocksCopied

\* the same for the aggregated strategy alone
C28_AggregatedStrategy ==
    (Aggregated /\ Last.arg[3] = "aggregated") => MedoidBlocksCopied

\* two hours clustered into two representative periods of one hour, the demand
\* of the second one copied
C28_AggregatedStrategyW ==
    /\ Aggregated /\ Last.arg = <<2, 1, "aggregated">>
    /\ \E x \in heap[objects[Last.result]["dPower_Demand"]] : x.rp = 2

(***************************************************************************)
(* Claims on the scaling                                                   *)
(***************************************************************************)
Reactive(r) == [Qmin |-> fillna0(r.Qmin), Qmax |-> fillna0(r.Qmax)]

\* the fields the scale_* steps multiply by a power, cost-per-power or angle factor
FactorFields(cs, units) ==
    [pSBase |-> cs.dPower_Parameters.pSBase,
     pENSCost |-> cs.dPower_Parameters.pENSCost,
     pLOLCost |-> cs.dPower_Parameters.pLOLCost,
     pMaxAngleDCOPF |-> cs.dPower_Parameters.pMaxAngleDCOPF,
     pPmax |-> cs.dPower_Network.pPmax,
     demand |-> cs.dPower_Demand.value,
     inflows |-> cs.dPower_Inflows.value,
     thermalRamp |-> [g \in units |-> <<cs.dPower_ThermalGen[g].RampUp,
                                        cs.dPower_ThermalGen[g].RampDw>>],
     vres |-> <<cs.dPower_VRES.MaxProd, cs.dPower_VRES.OMVarCost>>,
     storage |-> <<cs.dPower_Storage.MaxProd, cs.dPower_Storage.MaxCons>>,
     impExp |-> <<cs.dPower_ImpExpHubs, cs.dPower_ImpExpProfiles>>]

\* the thermal production limits and the reactive-power limits
DeratedAndReactiveFields(cs, units) ==
    [thermalProd |-> [g \in units |-> <<cs.dPower_ThermalGen[g].MaxProd,
                                        cs.dPower_ThermalGen[g].MinProd>>],
     thermalQ |-> [g \in units |-> Reactive(cs.dPower_ThermalGen[g])],
     vresQ |-> Reactive(cs.dPower_VRES),
     storageQ |-> Reactive(cs.dPower_Storage)]

RemoveThenScale ==
    /\ Len(scCalls) = 2
    /\ scCalls[1].op = "remove_scaling" /\ ~scCalls[1].raised
    /\ scCalls[2].op = "scale_CaseStudy" /\ ~scCalls[2].raised

\* C1: for non-zero factors, remove_scaling followed by scale_CaseStudy returns
\* every field that scaling multiplies in place (power, cost-per-power, angle
\* and reactive-power fields of all scaled tables) to its value before the two
\* calls (a missing Qmin / Qmax counting as the 0 that scaling fills in).
C1_RoundTrip ==
    RemoveThenScale =>
        LET units == DOMAIN scs.dPower_ThermalGen
            before == scCalls[1].pre
        IN /\ FactorFields(scs, units) = FactorFields(before, units)
           /\ DeratedAndReactiveFields(scs, units) = DeratedAndReactiveFields(before, units)

\* the part of C1 that holds: the fields multiplied by the power, cost and angle
\* factors alone
C1_FactorFields ==
    RemoveThenScale =>
        FactorFields(scs, DOMAIN scs.dPower_ThermalGen)
            = FactorFields(scCalls[1].pre, DOMAIN scs.dPower_ThermalGen)

\* the three factors remove_scaling inverts
StoredFactors(cs) ==
    <<cs.power_scaling_factor, cs.cost_scaling_factor, cs.angle_to_rad_scaling_factor>>

\* C17: after any call to remove_scaling, on every outcome of the call (normal
\* return or an error raised by one of the scale_* steps), power_scaling_factor,
\* cost_scaling_factor and angle_to_rad_scaling_factor hold the values they had
\* before the call.
C17_FactorsRestored ==
    \A n \in DOMAIN scCalls :
        scCalls[n].op = "remove_scaling" =>
            StoredFactors(IF n = Len(scCalls) THEN scs ELSE scCalls[n + 1].pre)
                = StoredFactors(scCalls[n].pre)

\* C17 for the calls that return
C17_Returned ==
    \A n \in DOMAIN scCalls :
        (scCalls[n].op = "remove_scaling" /\ ~scCalls[n].raised) =>
            StoredFactors(IF n = Len(scCalls) THEN scs ELSE scCalls[n + 1].pre)
                = StoredFactors(scCalls[n].pre)

\* the last call was a scale_CaseStudy that returned
ScaledOnce ==
    /\ scCalls # <<>>
    /\ scCalls[Len(scCalls)].op = "scale_CaseStudy"
    /\ ~scCalls[Len(scCalls)].raised

\* the fields of C19 but the thermal production limits, each multiplied by its
\* factor alone
ScaledByFactor(pre, post) ==
    LET p == pre.power_scaling_factor
        cp == Over(pre.cost_scaling_factor, pre.power_scaling_factor)
        reactive(r) == [Qmin |-> Times(fillna0(r.Qmin), ReactivePowerFactor),
                        Qmax |-> Times(fillna0(r.Qmax), ReactivePowerFactor)]
    IN /\ post.dPower_Demand.value = Times(pre.dPower_Demand.value, p)
       /\ post.dPower_Inflows.value = Times(pre.dPower_Inflows.value, p)
       /\ post.dPower_Network.pPmax = Times(pre.dPower_Network.pPmax, p)
       /\ post.dPower_Parameters.pSBase = Times(pre.dPower_Parameters.pSBase, p)
       /\ post.dPower_Parameters.pENSCost = Times(pre.dPower_Parameters.pENSCost, cp)
       /\ post.dPower_Parameters.pLOLCost = Times(pre.dPower_Parameters.pLOLCost, cp)
       /\ post.dPower_Parameters.pMaxAngleDCOPF
             = Times(pre.dPower_Parameters.pMaxAngleDCOPF, AngleToRad)
       /\ post.dPower_VRES.MaxProd = Times(pre.dPower_VRES.MaxProd, p)
       /\ post.dPower_VRES.OMVarCost = Times(pre.dPower_VRES.OMVarCost, cp)
       /\ Reactive(post.dPower_VRES) = reactive(pre.dPower_VRES)
       /\ post.dPower_ImpExpHubs.PmaxImport = Times(pre.dPower_ImpExpHubs.PmaxImport, p)
       /\ post.dPower_ImpExpHubs.PmaxExport = Times(pre.dPower_ImpExpHubs.PmaxExport, p)
       /\ post.dPower_ImpExpProfiles.ImpExp = Times(pre.dPower_ImpExpProfiles.ImpExp, p)
       /\ pre.dPower_Parameters.pEnableStorage =>
             /\ post.dPower_Storage.MaxProd = Times(pre.dPower_Storage.MaxProd, p)
             /\ post.dPower_Storage.MaxCons = Times(pre.dPower_Storage.MaxCons, p)
             /\ Reactive(post.dPower_Storage) = reactive(pre.dPower_Storage)
       /\ pre.dPower_Parameters.pEnableThermalGen =>
             \A g \in DOMAIN post.dPower_ThermalGen :
                /\ post.dPower_ThermalGen[g].RampUp = Times(pre.dPower_ThermalGen[g].RampUp, p)
                /\ post.dPower_ThermalGen[g].RampDw = Times(pre.dPower_ThermalGen[g].RampDw, p)
                /\ Reactive(post.dPower_ThermalGen[g]) = reactive(pre.dPower_ThermalGen[g])

\* the thermal production limits multiplied by the power factor alone
ThermalProdByFactor(pre, post) ==
    pre.dPower_Parameters.pEnableThermalGen =>
        \A g \in DOMAIN post.dPower_ThermalGen :
           /\ post.dPower_ThermalGen[g].MaxProd
                 = Times(pre.dPower_ThermalGen[g].MaxProd, pre.power_scaling_factor)
           /\ post.dPower_ThermalGen[g].MinProd
                 = Times(pre.dPower_ThermalGen[g].MinProd, pre.power_scaling_factor)

\* C19: one run of scale_CaseStudy with factors p and c multiplies every
\* power-valued field (demand, inflows, network Pmax, pSBase, thermal MaxProd,
\* MinProd, RampUp, RampDw, VRES MaxProd, storage MaxProd and MaxCons, the
\* import/export limits and profiles) by exactly p, every cost-per-power field
\* (pENSCost, pLOLCost, VRES OMVarCost) by exactly c/p, the angle limit by
\* pi/180 and the reactive-power limits by 1e-3 (a missing limit counting as
\* 0), whatever the other fields of the row hold.
C19_ScaleOnce ==
    ScaledOnce =>
        /\ ScaledByFactor(scCalls[Len(scCalls)].pre, scs)
        /\ ThermalProdByFactor(scCalls[Len(scCalls)].pre, scs)

\* C19 without the thermal production limits
C19_OtherFields ==
    ScaledOnce => ScaledByFactor(scCalls[Len(scCalls)].pre, scs)

\* a run that scaled a thermal table and a storage table by a factor other than 1
C19_OtherFieldsW ==
    /\ ScaledOnce
    /\ scCalls[Len(scCalls)].pre.power_scaling_factor # Q(1, 1)
    /\ scCalls[Len(scCalls)].pre.dPower_Parameters.pEnableThermalGen
    /\ scCalls[Len(scCalls)].pre.dPower_Parameters.pEnableStorage
    /\ DOMAIN scs.dPower_ThermalGen # {}

\* one call that scaled the thermal generators and did not fail in the storage
ThermalScaled ==
    /\ Len(scCalls) = 1
    /\ scCalls[1].pre.dPower_Parameters.pEnableThermalGen
    /\ ~(scCalls[1].pre.dPower_Parameters.pEnableStorage
            /\ IsNaN(scCalls[1].pre.dPower_Storage.DisEffic))

\* the MinUpTime and MinDownTime cells of the thermal table before the call
MinTimes ==
    LET t == scCalls[1].pre.dPower_ThermalGen
    IN {t[g].MinUpTime : g \in DOMAIN t} \cup {t[g].MinDownTime : g \in DOMAIN t}

\* C26: in scale_dPower_ThermalGen a missing MinUpTime or MinDownTime value is
\* replaced by 0 and scaling then succeeds whenever all values that are present
\* are whole numbers; a ValueError is raised only when some present value is
\* not an integer, and after a successful call both columns are integer-typed.
C26_MissingMinTime ==
    ThermalScaled =>
        /\ scCalls[1].raised <=> \E v \in MinTimes : ~IsNaN(v) /\ ~IsWhole(v)
        /\ ~scCalls[1].raised =>
              \A g \in DOMAIN scs.dPower_ThermalGen :
                  /\ IsWhole(scs.dPower_ThermalGen[g].MinUpTime)
                  /\ IsWhole(scs.dPower_ThermalGen[g].MinDownTime)

\* the call raises exactly when a column was not read as int64, which is the
\* case for a column with a fraction and for a column with a missing value
C26_RaisesOnDtype ==
    ThermalScaled =>
        /\ scCalls[1].raised <=> \E v \in MinTimes : ~IsWhole(v)
        /\ ~scCalls[1].raised =>
              \A g \in DOMAIN scs.dPower_ThermalGen :
                  /\ IsWhole(scs.dPower_ThermalGen[g].MinUpTime)
                  /\ IsWhole(scs.dPower_ThermalGen[g].MinDownTime)

\* a call that raised for the MinUpTime 1.5
C26_RaisesOnDtypeW ==
    /\ ThermalScaled /\ scCalls[1].raised
    /\ Q(3, 2) \in MinTimes

\* the tables of the CaseStudy
ScaleTables(cs) ==
    <<cs.dPower_Parameters, cs.dPower_Network, cs.dPower_Demand, cs.dPower_Inflows,
      cs.dPower_ThermalGen, cs.dPower_VRES, cs.dPower_Storage, cs.dPower_ImpExpHubs,
      cs.dPower_ImpExpProfiles>>

\* C27 (scale_CaseStudy): whenever scale_CaseStudy raises a fatal input error
\* (non-integer MinUpTime / MinDownTime, NaN storage efficiency), every table of
\* the CaseStudy equals its value before the call.
C27_ScaleAllOrNothing ==
    (Len(scCalls) = 1 /\ scCalls[1].op = "scale_CaseStudy" /\ scCalls[1].raised) =>
        ScaleTables(scs) = ScaleTables(scCalls[1].pre)

\* the tables scale_CaseStudy has not reached when it raises are as before
C27_ScaleLaterTables ==
    (Len(scCalls) = 1 /\ scCalls[1].op = "scale_CaseStudy" /\ scCalls[1].raised) =>
        /\ scs.dPower_ImpExpHubs = scCalls[1].pre.dPower_ImpExpHubs
        /\ scs.dPower_ImpExpProfiles = scCalls[1].pre.dPower_ImpExpProfiles
        /\ scs.dPower_Demand.value
              = Times(scCalls[1].pre.dPower_Demand.value, scs.power_scaling_factor)

\* a call with a factor other than 1 that raised in the storage table
C27_ScaleLaterTablesW ==
    /\ Len(scCalls) = 1 /\ scCalls[1].op = "scale_CaseStudy" /\ scCalls[1].raised
    /\ scs.power_scaling_factor = Q(2, 1)
    /\ IsNaN(scCalls[1].pre.dPower_Storage.DisEffic)

(***************************************************************************)
(* Claims on the bus merging                                               *)
(***************************************************************************)
TaggedSN(r) == r.pTecRepr = "SN" \/ r.TechnicalRepresentation = "SN"

MergeTables(cs) ==
    <<cs.dPower_BusInfo, cs.dPower_Network, cs.dPower_ThermalGen, cs.dPower_Demand,
      cs.dPower_VRESProfiles, cs.dPower_VRES, cs.dPower_Storage, cs.dPower_ImpExpHubs>>

\* C2: after merge_single_node_buses has run, the network table contains no
\* row tagged SN, and running it a second time changes no table.
C2_MergeIdempotent ==
    mgCalls # <<>> =>
        /\ \A n \in DOMAIN mcs.dPower_Network : ~TaggedSN(mcs.dPower_Network[n])
        /\ Len(mgCalls) = 2 => MergeTables(mcs) = MergeTables(mgCalls[2].pre)

\* the same for calls that return, on tables that carry every column the
\* merge reads
C2_Returned ==
    (mgCalls # <<>> /\ \A n \in DOMAIN mgCalls : ~mgCalls[n].raised) =>
        /\ \A n \in DOMAIN mcs.dPower_Network : ~TaggedSN(mcs.dPower_Network[n])
        /\ Len(mgCalls) = 2 => MergeTables(mcs) = MergeTables(mgCalls[2].pre)

RECURSIVE Reach(_, _)
\* the buses reached from the buses S over the edges E
Reach(S, E) ==
    LET N == S \cup {e[2] : e \in {d \in E : d[1] \in S}}
    IN IF N = S THEN S ELSE Reach(N, E)

SNEdges(network) ==
    UNION {{<<network[n].i, network[n].j>>, <<network[n].j, network[n].i>>} :
              n \in {m \in DOMAIN network : TaggedSN(network[m])}}

\* the merged components of a network: the SN-connected sets of buses with an edge
Components(network) ==
    {Reach({e[1]}, SNEdges(network)) : e \in SNEdges(network)}

ComponentName(C) ==
    LET keys == SortKeys({<<b>> : b \in C})
    IN <<MergedTag>> \o Join([n \in 1..Len(keys) |-> keys[n][1]])

\* C9: after merge_single_node_buses no network row has both endpoints inside
\* one merged component; every original row with exactly one endpoint in a
\* merged component and the other endpoint unmerged appears keyed (other
\* endpoint, merged bus); the network holds at most one row per unordered pair
\* of buses of which one is a merged bus; and buses A, B, C with A-B tagged SN
\* and B-C a normal line give the bus merged-A-B and exactly one line, between
\* C and merged-A-B.
C9_Rekeyed ==
    Len(mgCalls) = 1 =>
        LET before == mgCalls[1].pre.dPower_Network
            after == mcs.dPower_Network
            comps == Components(before)
            inside(b, C) == b \in C \/ b = ComponentName(C)
            mergedNames == {ComponentName(C) : C \in comps}
        IN /\ \A n \in DOMAIN after, C \in comps :
                ~(inside(after[n].i, C) /\ inside(after[n].j, C))
           /\ \A n \in DOMAIN before, C \in comps :
                LET r == before[n]
                    other == IF r.i \in C THEN r.j ELSE r.i
                IN ((r.i \in C) # (r.j \in C) /\ other \notin UNION comps) =>
                      \E m \in DOMAIN after :
                          after[m].i = other /\ after[m].j = ComponentName(C)
           /\ \A n \in DOMAIN after, m \in DOMAIN after :
                (n # m /\ {after[n].i, after[n].j} \cap mergedNames # {}) =>
                      {after[n].i, after[n].j} # {after[m].i, after[m].j}
           /\ ( /\ Len(before) = 2
                /\ <<before[1].i, before[1].j, before[1].pTecRepr>> = <<<<1>>, <<2>>, "SN">>
                /\ <<before[2].i, before[2].j>> = <<<<2>>, <<3>>>>
                /\ before[2].pTecRepr # "SN" ) =>
                   /\ {mcs.dPower_BusInfo[n].i : n \in DOMAIN mcs.dPower_BusInfo}
                          = {<<3>>, <<MergedTag, 1, 2>>}
                   /\ Len(after) = 1
                   /\ {after[1].i, after[1].j} = {<<3>>, <<MergedTag, 1, 2>>}

\* the same for a call that returns
C9_Returned ==
    (Len(mgCalls) = 1 /\ ~mgCalls[1].raised) =>
        LET before == mgCalls[1].pre.dPower_Network
            after == mcs.dPower_Network
            comps == Components(before)
            inside(b, C) == b \in C \/ b = ComponentName(C)
            mergedNames == {ComponentName(C) : C \in comps}
        IN /\ \A n \in DOMAIN after, C \in comps :
                ~(inside(after[n].i, C) /\ inside(after[n].j, C))
           /\ \A n \in DOMAIN before, C \in comps :
                LET r == before[n]
                    other == IF r.i \in C THEN r.j ELSE r.i
                IN ((r.i \in C) # (r.j \in C) /\ other \notin UNION comps) =>
                      \E m \in DOMAIN after :
                          after[m].i = other /\ after[m].j = ComponentName(C)
           /\ \A n \in DOMAIN after, m \in DOMAIN after :
                (n # m /\ {after[n].i, after[n].j} \cap mergedNames # {}) =>
                      {after[n].i, after[n].j} # {after[m].i, after[m].j}

\* the bus ids of the bus-info table
BusIds(cs) == {cs.dPower_BusInfo[n].i : n \in DOMAIN cs.dPower_BusInfo}

\* the bus ids the rows of a table refer to
BusesOf(rows) == {rows[n].i : n \in DOMAIN rows}

\* the tables the merge re-keys
RekeyedBuses(cs) ==
    BusesOf(cs.dPower_Network) \cup {cs.dPower_Network[n].j : n \in DOMAIN cs.dPower_Network}
        \cup BusesOf(cs.dPower_ThermalGen) \cup BusesOf(cs.dPower_VRES)
        \cup BusesOf(cs.dPower_Storage) \cup BusesOf(cs.dPower_Demand)

\* C14: after merge_single_node_buses every bus id referenced by a row of the
\* network, thermal-generation, VRES, storage and import/export-hub tables and
\* by every demand row is the id of a row of the bus-info table.
C14_BusesExist ==
    mgCalls # <<>> => (RekeyedBuses(mcs) \cup BusesOf(mcs.dPower_ImpExpHubs)) \subseteq BusIds(mcs)

\* C14 without the import/export hubs
C14_Rekeyed ==
    mgCalls # <<>> => RekeyedBuses(mcs) \subseteq BusIds(mcs)

\* a call that merged buses and re-keyed the generators and the demand
C14_RekeyedW ==
    /\ Len(mgCalls) = 1 /\ ~mgCalls[1].raised
    /\ \E b \in BusesOf(mcs.dPower_ThermalGen) \cap BusesOf(mcs.dPower_Demand) :
          b[1] = MergedTag

\* the registered scenario tags as the cells of the scenario column of the demand
RegisteredNames(cs) == {<<sc>> : sc \in cs.dGlobal_Scenarios}

\* C15: after construction with bus merging, every row of the bus-info, network
\* and demand tables (the merged bus-info rows, the aggregated network rows and
\* the summed demand rows among them) carries a scenario tag registered in the
\* global scenario table.
C15_ScenarioTags ==
    (mgCalls # <<>> /\ ~mgCalls[1].raised) =>
        /\ \A n \in DOMAIN mcs.dPower_BusInfo :
              mcs.dPower_BusInfo[n].scenario \in mcs.dGlobal_Scenarios
        /\ \A n \in DOMAIN mcs.dPower_Network :
              mcs.dPower_Network[n].scenario \in mcs.dGlobal_Scenarios
        /\ \A n \in DOMAIN mcs.dPower_Demand :
              mcs.dPower_Demand[n].scenario \in RegisteredNames(mcs)

\* the rows the merge did not make keep their tags
C15_UnmergedRows ==
    (mgCalls # <<>> /\ ~mgCalls[1].raised) =>
        \A n \in DOMAIN mcs.dPower_BusInfo :
            mcs.dPower_BusInfo[n].i[1] # MergedTag =>
                mcs.dPower_BusInfo[n].scenario \in mcs.dGlobal_Scenarios

\* the buses of a table as the list get_connected_buses is asked about
BusList(cs) == [n \in DOMAIN cs.dPower_BusInfo |-> cs.dPower_BusInfo[n].i]

\* a list of buses without repetition, in lexicographic order
SortedOnce(buses) ==
    \A a \in DOMAIN buses, b \in DOMAIN buses :
        a < b => (buses[a] # buses[b] /\ KeyLE(<<buses[a]>>, <<buses[b]>>))

\* the merged buses of the bus-info table
MergedBusNames(cs) == {b \in BusIds(cs) : b[1] = MergedTag}

\* C21 (get_connected_buses): for any start bus the result is exactly the set
\* of buses reachable from it over the SN-tagged network rows taken in either
\* direction, each listed once and sorted lexicographically, on every graph,
\* cycles included.
C21_ConnectedBuses ==
    (mcs # <<>> /\ "pTecRepr" \in mcs.networkColumns) =>
        \A n \in DOMAIN mcs.dPower_BusInfo :
            LET bus == mcs.dPower_BusInfo[n].i
                found == get_connected_buses(ConnectionMatrix(mcs.dPower_Network),
                                             BusList(mcs), bus)
            IN /\ Range(found) = Reach({bus}, SNEdges(mcs.dPower_Network))
               /\ SortedOnce(found)

\* a network whose SN rows form the cycle A-B, A-C, B-C
C21_ConnectedBusesW ==
    /\ mcs # <<>> /\ "pTecRepr" \in mcs.networkColumns
    /\ Len(mcs.dPower_Network) = 3
    /\ \A n \in DOMAIN mcs.dPower_Network : mcs.dPower_Network[n].pTecRepr = "SN"
    /\ Cardinality({{mcs.dPower_Network[n].i, mcs.dPower_Network[n].j} :
                       n \in DOMAIN mcs.dPower_Network}) = 3

\* C21: merge_single_node_buses creates exactly one merged bus per SN-connected
\* component of two or more buses, named 'merged-' followed by the sorted
\* members joined by '-', and no bus ends up in two merged buses.
C21_OneMergedBus ==
    Len(mgCalls) = 1 =>
        LET comps == Components(mgCalls[1].pre.dPower_Network)
        IN /\ MergedBusNames(mcs) = {ComponentName(C) : C \in comps}
           /\ Len(mcs.dPower_BusInfo) = Cardinality(BusIds(mcs))
           /\ BusIds(mcs) \ MergedBusNames(mcs) = BusIds(mgCalls[1].pre) \ UNION comps
           /\ \A C \in comps, D \in comps : C # D => C \cap D = {}

\* the same for a call that returns
C21_Returned ==
    (Len(mgCalls) = 1 /\ ~mgCalls[1].raised) =>
        LET comps == Components(mgCalls[1].pre.dPower_Network)
        IN /\ MergedBusNames(mcs) = {ComponentName(C) : C \in comps}
           /\ Len(mcs.dPower_BusInfo) = Cardinality(BusIds(mcs))
           /\ BusIds(mcs) \ MergedBusNames(mcs) = BusIds(mgCalls[1].pre) \ UNION comps
           /\ \A C \in comps, D \in comps : C # D => C \cap D = {}

\* a call that returned after merging the one component of the network
MergedOne ==
    /\ Len(mgCalls) = 1 /\ ~mgCalls[1].raised
    /\ Cardinality(Components(mgCalls[1].pre.dPower_Network)) = 1

\* the rows of the network before the call that end up under the key (i, j),
\* re-keyed, in table order
GroupOf(i, j) ==
    LET C == CHOOSE D \in Components(mgCalls[1].pre.dPower_Network) : TRUE
        rekeyed == RekeyNetwork(mgCalls[1].pre.dPower_Network, C, ComponentName(C))
    IN SelectSeq(rekeyed, LAMBDA r : r.i = i /\ r.j = j)

\* C22: when several network rows share one (i, j) key after re-keying, the
\* single resulting row has reactance X with 1/X equal to the sum of 1/X over
\* the group, capacity equal to (minimum capacity in the group) times (number
\* of rows in the group), technical representation 'DC-OPF' if any row of the
\* group has it and otherwise the first row's value, and every other field of
\* the network table (scenario tag, circuit id, line id, pTecRepr) equal to the
\* first row's value.
C22_ParallelLines ==
    MergedOne =>
        \A n \in DOMAIN mcs.dPower_Network :
            LET row == mcs.dPower_Network[n]
                group == GroupOf(row.i, row.j)
            IN Len(group) >= 2 =>
                /\ Inverse(row.X) = SumX(group)
                /\ row.Pmax = Min({group[m].Pmax : m \in DOMAIN group}) * Len(group)
                /\ row.TechnicalRepresentation =
                      (IF \E m \in DOMAIN group : group[m].TechnicalRepresentation = "DC-OPF"
                       THEN "DC-OPF" ELSE group[1].TechnicalRepresentation)
                /\ row.LineID = group[1].LineID
                /\ row.scenario = group[1].scenario
                /\ row.c = group[1].c
                /\ row.pTecRepr = group[1].pTecRepr

\* C22 for the columns the aggregation names
C22_AggregatedColumns ==
    MergedOne =>
        \A n \in DOMAIN mcs.dPower_Network :
            LET row == mcs.dPower_Network[n]
                group == GroupOf(row.i, row.j)
            IN Len(group) >= 2 =>
                /\ Inverse(row.X) = SumX(group)
                /\ row.Pmax = Min({group[m].Pmax : m \in DOMAIN group}) * Len(group)
                /\ row.TechnicalRepresentation =
                      (IF \E m \in DOMAIN group : group[m].TechnicalRepresentation = "DC-OPF"
                       THEN "DC-OPF" ELSE group[1].TechnicalRepresentation)
                /\ row.LineID = group[1].LineID

\* a merge after which two rows, one of them DC-OPF, share a key
C22_AggregatedColumnsW ==
    /\ MergedOne
    /\ \E n \in DOMAIN mcs.dPower_Network :
          LET group == GroupOf(mcs.dPower_Network[n].i, mcs.dPower_Network[n].j)
          IN /\ Len(group) = 2
             /\ group[1].TechnicalRepresentation = "TP"
             /\ group[2].TechnicalRepresentation = "DC-OPF"

\* a call that returned and merged at least one component
MergedSome ==
    /\ Len(mgCalls) = 1 /\ ~mgCalls[1].raised
    /\ Components(mgCalls[1].pre.dPower_Network) # {}

\* the buses of the merged components of the call
MergedMembers == UNION Components(mgCalls[1].pre.dPower_Network)

\* C23: when merge_single_node_buses merges at least one component, the
\* bus-info row of every bus without SN edges is unchanged, and every network
\* row whose two endpoints both lie outside all merged components keeps its key
\* and all of its field values, so parallel circuits between two unmerged buses
\* remain separate rows.
C23_Untouched ==
    MergedSome =>
        /\ \A n \in DOMAIN mgCalls[1].pre.dPower_BusInfo :
              mgCalls[1].pre.dPower_BusInfo[n].i \notin MergedMembers =>
                  mgCalls[1].pre.dPower_BusInfo[n] \in Range(mcs.dPower_BusInfo)
        /\ \A n \in DOMAIN mgCalls[1].pre.dPower_Network :
              LET r == mgCalls[1].pre.dPower_Network[n]
              IN (r.i \notin MergedMembers /\ r.j \notin MergedMembers) =>
                    r \in Range(mcs.dPower_Network)

\* C23 for the bus-info table, and for the network the pair (i, j) of every
\* such row is still the key of a row
C23_BusInfoUntouched ==
    MergedSome =>
        /\ \A n \in DOMAIN mgCalls[1].pre.dPower_BusInfo :
              mgCalls[1].pre.dPower_BusInfo[n].i \notin MergedMembers =>
                  mgCalls[1].pre.dPower_BusInfo[n] \in Range(mcs.dPower_BusInfo)
        /\ \A n \in DOMAIN mgCalls[1].pre.dPower_Network :
              LET r == mgCalls[1].pre.dPower_Network[n]
              IN (r.i \notin MergedMembers /\ r.j \notin MergedMembers) =>
                    \E m \in DOMAIN mcs.dPower_Network :
                        mcs.dPower_Network[m].i = r.i /\ mcs.dPower_Network[m].j = r.j

\* A and B merged next to two parallel lines between C and D
C23_BusInfoUntouchedW ==
    /\ MergedSome
    /\ MergedMembers = {<<1>>, <<2>>}
    /\ Cardinality({n \in DOMAIN mgCalls[1].pre.dPower_Network :
                       /\ mgCalls[1].pre.dPower_Network[n].i = <<3>>
                       /\ mgCalls[1].pre.dPower_Network[n].j = <<4>>}) = 2

\* the demand of the buses B in scenario sc: the sum over the rows tagged sc
DemandOf(rows, sc, B) ==
    SumValues(SelectSeq(rows, LAMBDA r : r.scenario = <<sc>> /\ r.i \in B))

\* the demand of the buses B over all rows
TotalDemand(rows, B) == SumValues(SelectSeq(rows, LAMBDA r : r.i \in B))

\* C30: merge_single_node_buses conserves demand: for every scenario, rp and k
\* the sum of the demand over all buses after merging equals the sum before,
\* the demand of each merged bus is the sum of the demands of its member buses
\* in that scenario, and the demand rows of unmerged buses are unchanged.
C30_DemandConserved ==
    MergedSome =>
        LET before == mgCalls[1].pre.dPower_Demand
            after == mcs.dPower_Demand
        IN /\ \A sc \in mcs.dGlobal_Scenarios :
                 /\ DemandOf(after, sc, BusIds(mcs)) = DemandOf(before, sc, BusIds(mgCalls[1].pre))
                 /\ \A C \in Components(mgCalls[1].pre.dPower_Network) :
                       DemandOf(after, sc, {ComponentName(C)}) = DemandOf(before, sc, C)
           /\ \A n \in DOMAIN before :
                 before[n].i \notin MergedMembers => before[n] \in Range(after)

\* the demand summed over the scenarios is conserved, in total and per merged bus
C30_TotalConserved ==
    MergedSome =>
        LET before == mgCalls[1].pre.dPower_Demand
            after == mcs.dPower_Demand
        IN /\ TotalDemand(after, BusIds(mcs)) = TotalDemand(before, BusIds(mgCalls[1].pre))
           /\ \A C \in Components(mgCalls[1].pre.dPower_Network) :
                 TotalDemand(after, {ComponentName(C)}) = TotalDemand(before, C)
           /\ \A b \in BusIds(mgCalls[1].pre) \ MergedMembers :
                 TotalDemand(after, {b}) = TotalDemand(before, {b})

\* a merge of three buses into one
C30_TotalConservedW ==
    /\ MergedSome
    /\ Cardinality(MergedMembers) = 3
    /\ \E n \in DOMAIN mcs.dPower_Demand : Len(mcs.dPower_Demand[n].i) = 4

(***************************************************************************)
(* Claims on the Excel reader and writer                                   *)
(***************************************************************************)
\* the test has run to its end on a table read with the excluded entries kept
RoundTripDone ==
    /\ xlStatus \in {"raised", "equal", "different"}
    /\ xlData.keep

\* C16: for each table kind, reading a workbook with excluded entries kept and
\* writing the resulting table back yields a workbook that compare_Excels
\* judges equal to the source: one sheet per scenario, the same rows in the
\* same order with the same cell values; melting a pivoted sheet on read and
\* pivoting it again on write restores the original rows and columns.
C16_RoundTrip ==
    RoundTripDone =>
        /\ xlStatus = "equal"
        /\ xlTarget = SelectSeq(xlSource.sheets, LAMBDA sh : sh.name # "~Notes")

\* a workbook as the writer lays it out: every sheet a scenario with rows, the
\* excl cells empty or 'X', and on a pivoted sheet the rows in the order of
\* their index and the pivoted columns in the order of their labels
WriterLayout(wb) ==
    \A n \in DOMAIN wb.sheets :
        LET sh == wb.sheets[n]
        IN /\ sh.name # "~Notes"
           /\ sh.rows # <<>>
           /\ \A r \in DOMAIN sh.rows : sh.rows[r].excl \in {"", "X"}
           /\ wb.kind = "Power_Demand" =>
                 /\ \A r \in 1..(Len(sh.rows) - 1) : sh.rows[r].key < sh.rows[r + 1].key
                 /\ \A c \in 1..(Len(sh.header) - 1) : sh.header[c] < sh.header[c + 1]

\* C16 on the workbooks that have the layout of the writer
C16_WriterLayout ==
    (RoundTripDone /\ WriterLayout(xlSource)) =>
        /\ xlStatus = "equal"
        /\ xlTarget = xlSource.sheets

\* a pivoted workbook of two scenarios that came back equal
C16_WriterLayoutW ==
    /\ RoundTripDone /\ WriterLayout(xlSource) /\ xlStatus = "equal"
    /\ xlSource.kind = "Power_Demand"
    /\ Len(xlSource.sheets) = 2
    /\ Len(xlSource.sheets[1].rows) = 2

=============================================================================
